---- MODULE Spec2Model ----
(***************************************************************************)
(* A model of the BuddyAI tutoring backend (core/services/llm_service.py   *)
(* and the views that call it).  One request is in flight at a time; the   *)
(* Retrieval Provider (Chroma similarity_search) and the Generation        *)
(* Provider (chat.completions.create, ChatOpenAI.invoke) are black boxes   *)
(* whose every reply is a nondeterministic choice.  Texts are TLA+ strings *)
(* and are handled character by character.                                 *)
(***************************************************************************)
EXTENDS Integers, Sequences, FiniteSets, TLC

VARIABLES
    pc,              \* code position of the request in flight ("idle", "done", or a label)
    stack,           \* return labels of the calls in progress, innermost first
    req,             \* the request: entry point, message, level, model
    ret,             \* value returned (or exception raised) by the last call that ended
    storeAvailable,  \* self.textbook_vectorstore is not None
    argK,            \* k of the retrieve_textbook_chunks call in progress
    chunks,          \* chunks local of generate_*_answer
    viewChunks,      \* chunks local of the views
    answer,          \* answer local of generate_textbook_answer / get_chat_response / get_answer
    context,         \* context argument of generate_suggested_questions
    chatModel,       \* model argument of _openai_chat
    mIdx,            \* index of m in attempt_models
    attempt,         \* attempt of the inner loop, 0..2
    msg,             \* the error of the current attempt, as _openai_chat reads it
    log,             \* the provider invocations of the _openai_chat call in progress or just ended
    trace,           \* history of the request: provider invocations by kind, what each
                     \* retrieve_textbook_chunks call returned, how _openai_chat ended
    cache,           \* an _LRUCache: its (key, value) items, oldest first
    capacity,        \* self.capacity of the cache
    recency,         \* history: the keys touched so far, least recently touched first
    cacheOp,         \* history: the last get or set of the cache, with the items before it
    lastSet,         \* history: key -> the value last set for it, for the keys set and
                     \* not evicted since
    sessions,        \* _TEST_SESSIONS: test id -> session
    gradeCache,      \* _GRADE_CACHE: (test id, question id, answer) -> graded row
    now,             \* time.time(), in seconds
    response,        \* the last response of a test view
    returned,        \* history: what the last submit_test of each test returned
    providers,       \* whether the providers are deterministic, and then the reply each
                     \* has given to each input so far
    first,           \* history: the first of two identical requests and what it returned
    threads,         \* request threads that share the cache: where each is in get or set
    tr,              \* translate_view: the request in flight, its chunks and workers, and
                     \* the last response
    limiter,         \* rate_limiter: window_start and count
    configured,      \* get_translator().is_configured()
    rate             \* history: what the last allow() returned, and how many calls
                     \* returned True since the window was last reset

\* the state of LLMService and of its request in flight
llmVars == <<pc, stack, req, ret, storeAvailable, argK, chunks, viewChunks, answer,
             context, chatModel, mIdx, attempt, msg, log, trace, providers, first>>

\* the state of translator._LRUCache
cacheVars == <<cache, capacity, recency, cacheOp, lastSet>>

\* the state of views/test_api.py
sessionVars == <<sessions, gradeCache, now, response, returned>>

\* the state of concurrent requests
viewVars == <<tr, limiter, configured, rate>>

callVars == <<threads, viewVars>>

\* the other modules
otherVars == <<cacheVars, sessionVars, callVars>>

\* what a method of LLMService that calls no provider leaves as it is
restVars == <<otherVars, providers, first>>

vars == <<llmVars, cacheVars, sessionVars, callVars>>

(***************************************************************************)
(* Text helpers: Python's str methods, character by character.             *)
(***************************************************************************)
UpperLetters == "ABCDEFGHIJKLMNOPQRSTUVWXYZ"

LowerLetters == "abcdefghijklmnopqrstuvwxyz"

Ch(s, i) == SubSeq(s, i, i)

UpperSet == {Ch(UpperLetters, i) : i \in 1..Len(UpperLetters)}

LetterSet == UpperSet \cup {Ch(LowerLetters, i) : i \in 1..Len(LowerLetters)}

DigitSet == {"0", "1", "2", "3", "4", "5", "6", "7", "8", "9"}

IsLetter(c) == c \in LetterSet

LowerMap ==
    [c \in UpperSet |->
        Ch(LowerLetters, CHOOSE i \in 1..Len(UpperLetters) : Ch(UpperLetters, i) = c)]

LowerChar(c) == IF c \in UpperSet THEN LowerMap[c] ELSE c

RECURSIVE Lower(_)
\* str.lower()
Lower(s) == IF s = "" THEN "" ELSE LowerChar(Ch(s, 1)) \o Lower(SubSeq(s, 2, Len(s)))

IsSpace(c) == c \in {" ", "\n", "\t", "\r"}

RECURSIVE LStrip(_)
LStrip(s) == IF s /= "" /\ IsSpace(Ch(s, 1)) THEN LStrip(SubSeq(s, 2, Len(s))) ELSE s

RECURSIVE RStrip(_)
RStrip(s) == IF s /= "" /\ IsSpace(Ch(s, Len(s))) THEN RStrip(SubSeq(s, 1, Len(s) - 1)) ELSE s

\* str.strip()
Strip(s) == RStrip(LStrip(s))

\* sub in s
Contains(s, sub) == \E i \in 1..(Len(s) - Len(sub) + 1) : SubSeq(s, i, i + Len(sub) - 1) = sub

\* s.startswith(p)
StartsWith(s, p) == Len(p) <= Len(s) /\ SubSeq(s, 1, Len(p)) = p

\* s.endswith(p)
EndsWith(s, p) == Len(p) <= Len(s) /\ SubSeq(s, Len(s) - Len(p) + 1, Len(s)) = p

\* s[:n]
Prefix(s, n) == SubSeq(s, 1, IF Len(s) < n THEN Len(s) ELSE n)

\* first position of character c in s at or after i, or Len(s) + 1
RECURSIVE Find(_, _, _)
Find(s, c, i) == IF i > Len(s) \/ Ch(s, i) = c THEN i ELSE Find(s, c, i + 1)

\* s.split(c), for a one-character separator
RECURSIVE Split(_, _)
Split(s, c) ==
    LET j == Find(s, c, 1)
    IN  IF j > Len(s) THEN <<s>>
        ELSE <<SubSeq(s, 1, j - 1)>> \o Split(SubSeq(s, j + 1, Len(s)), c)

\* [f(x) for x in seq if p(x)] building blocks
RECURSIVE SelectNonEmpty(_)
SelectNonEmpty(seq) ==
    IF seq = <<>> THEN <<>>
    ELSE (IF Head(seq) /= "" THEN <<Head(seq)>> ELSE <<>>) \o SelectNonEmpty(Tail(seq))

\* seq[:n]
Take(seq, n) == SubSeq(seq, 1, IF Len(seq) < n THEN Len(seq) ELSE n)

(***************************************************************************)
(* Control: calls and returns.                                             *)
(***************************************************************************)
\* a call: run label, then continue at back
Call(label, back) == pc' = label /\ stack' = <<back>> \o stack /\ ret' = ret

\* a return of value v, or a raise (exc), to the innermost caller
End(exc, v) ==
    /\ ret' = [exc |-> exc, val |-> v]
    /\ IF stack = <<>>
       THEN pc' = "done" /\ stack' = stack
       ELSE pc' = Head(stack) /\ stack' = Tail(stack)

Return(v) == End(FALSE, v)

Raise == End(TRUE, "exception")

(***************************************************************************)
(* Configuration and fixed texts of LLMService.                            *)
(***************************************************************************)
\* mode_config[...]["max_chunks"]
TextbookMaxChunks == 3

DetailedMaxChunks == 4

AdvancedMaxChunks == 2

\* k of retrieve_textbook_chunks when the caller gives none
DefaultK == 3

\* range(3) of _openai_chat
MaxAttempts == 3

\* len(context) < 30 of generate_suggested_questions
MinContextLen == 30

\* Python's None, where a text may be missing
None == "<None>"

ValidLevels == {"textbook", "detailed", "advanced"}

\* task_router["chat"][level]["model"], with no LLM_MODEL_* override in the environment
TaskRouterModel(level) == IF level = "advanced" THEN "gpt-4o" ELSE "gpt-4o-mini"

\* temperature of llm_textbook, llm_detailed, llm_advanced (mode_config[level]["llm"]),
\* in tenths
TextbookTemperature == 1

DetailedTemperature == 3

AdvancedTemperature == 7

\* mode_config[level]["llm"].temperature, in tenths
ModeTemperature(level) ==
    IF level = "textbook" THEN TextbookTemperature
    ELSE IF level = "detailed" THEN DetailedTemperature
    ELSE AdvancedTemperature

\* mode_config[level]["max_chunks"]
MaxChunks(level) ==
    CASE level = "textbook" -> TextbookMaxChunks
      [] level = "detailed" -> DetailedMaxChunks
      [] OTHER -> AdvancedMaxChunks

\* no fallback model
AttemptModelsNoFallback(model) == <<model>>

\* attempt_models of _openai_chat
\* a second model for every configured model
AttemptModelsBothWays(model) ==
    IF model = "gpt-4o" THEN <<model, "gpt-4o-mini">> ELSE <<model, "gpt-4o">>

AttemptModels(model) == IF model = "gpt-4o" THEN <<model, "gpt-4o-mini">> ELSE <<model>>

HedgePhrases ==
    {"i don't have information", "not in the textbook", "cannot be answered",
     "insufficient information"}

\* the phrases sought in the answer as it is
IsHedgedCaseSensitive(text) == \E phrase \in HedgePhrases : Contains(text, phrase)

\* any(phrase in answer.lower() for phrase in [...])
IsHedged(text) == \E phrase \in HedgePhrases : Contains(Lower(text), phrase)

\* _get_fallback_questions
GetFallbackQuestions ==
    << "Can you explain more about this topic?",
       "What are the key points to remember?",
       "How does this relate to other concepts?" >>

\* _get_topic_specific_questions
GetTopicSpecificQuestions(text) ==
    LET context_lower == Lower(text)
    IN  IF Contains(context_lower, "solar system") \/ Contains(context_lower, "planet")
        THEN << "What are the eight planets in our solar system?",
                "How do planets orbit around the Sun?",
                "What makes Earth special compared to other planets?" >>
        ELSE IF Contains(context_lower, "sun") \/ Contains(context_lower, "star")
        THEN << "How does the Sun produce light and heat?",
                "Why does the Sun appear bigger than other stars?",
                "What would happen to Earth without the Sun?" >>
        ELSE IF Contains(context_lower, "moon")
        THEN << "Why does the Moon have different phases?",
                "How does the Moon affect Earth's oceans?",
                "How far away is the Moon from Earth?" >>
        ELSE GetFallbackQuestions

\* d.get(key, default)
Get(d, key, default) == IF key \in DOMAIN d THEN d[key] ELSE default

\* the three dictionaries generate_textbook_answer returns without an answer
NoPassagesResult(message) ==
    [ success |-> FALSE,
      answer |-> "I couldn't find information about '" \o message
                 \o "' in the textbook. This topic may not be covered in your science textbook, or you might need to rephrase your question.",
      suggested_questions |-> GetTopicSpecificQuestions(message),
      source |-> "textbook_only" ]

HedgeResult(message) ==
    [ success |-> FALSE,
      answer |-> "The textbook doesn't contain enough information to answer: '" \o message
                 \o "'. Please try asking about topics that are covered in your science textbook.",
      suggested_questions |-> GetTopicSpecificQuestions(message),
      source |-> "textbook_only",
      used_mode |-> "textbook",
      mode_notes |-> "Insufficient textbook chunks found to confidently answer." ]

TextbookErrorResult(message) ==
    [ success |-> FALSE,
      answer |-> "Error generating textbook explanation. Please try again.",
      suggested_questions |-> GetTopicSpecificQuestions(message),
      source |-> "textbook_only",
      used_mode |-> "textbook",
      mode_notes |-> "Exception occurred during textbook generation" ]

\* the dictionary of a successful textbook answer
TextbookSuccessResult(text, questions, n) ==
    [ success |-> TRUE,
      answer |-> text,
      suggested_questions |-> questions,
      source |-> "textbook_only",
      chunks_used |-> n,
      used_mode |-> "textbook",
      mode_notes |-> "Answer generated strictly from retrieved textbook chunks." ]

NoDetailedContent ==
    "I couldn't find enough textbook content to provide a detailed explanation. Please try asking about topics covered in your science textbook."

\* the text generate_answer and generate_*_answer return on an exception
ErrorText(level) == "Error generating " \o level \o " explanation. Please try again."

InvalidQuestionText == "Please provide a valid question."

(***************************************************************************)
(* generate_suggested_questions: parsing of the reply and the heuristic.   *)
(***************************************************************************)
IsNumber(t) == t /= "" /\ \A i \in 1..Len(t) : Ch(t, i) \in DigitSet

\* one element of a JSON array: a string without escapes, or a bare scalar
JsonItem(tok) ==
    LET t == Strip(tok)
    IN  IF Len(t) >= 2 /\ StartsWith(t, "\"") /\ EndsWith(t, "\"")
           /\ ~Contains(SubSeq(t, 2, Len(t) - 1), "\"")
        THEN [ok |-> TRUE, isStr |-> TRUE, s |-> SubSeq(t, 2, Len(t) - 1)]
        ELSE IF t \in {"null", "true", "false"} \/ IsNumber(t)
        THEN [ok |-> TRUE, isStr |-> FALSE, s |-> t]
        ELSE [ok |-> FALSE, isStr |-> FALSE, s |-> t]

\* json.loads(raw), on the replies of the model: arrays of scalars and of strings that
\* hold no comma, quote or escape; a bare scalar; anything else fails to parse
JsonLoads(raw) ==
    LET t == Strip(raw)
    IN  IF Len(t) >= 2 /\ StartsWith(t, "[") /\ EndsWith(t, "]")
        THEN LET inner == Strip(SubSeq(t, 2, Len(t) - 1))
                 toks  == IF inner = "" THEN <<>> ELSE Split(inner, ",")
                 items == [i \in 1..Len(toks) |-> JsonItem(toks[i])]
             IN  IF \A i \in 1..Len(items) : items[i].ok
                 THEN [ok |-> TRUE, kind |-> "list", items |-> items]
                 ELSE [ok |-> FALSE, kind |-> "error", items |-> <<>>]
        ELSE IF JsonItem(t).ok /\ ~JsonItem(t).isStr
        THEN [ok |-> TRUE, kind |-> "scalar", items |-> <<>>]
        ELSE [ok |-> FALSE, kind |-> "error", items |-> <<>>]

\* [q.strip() for q in data if isinstance(q, str)]
RECURSIVE StrippedStrings(_)
StrippedStrings(items) ==
    IF items = <<>> THEN <<>>
    ELSE (IF Head(items).isStr THEN <<Strip(Head(items).s)>> ELSE <<>>)
         \o StrippedStrings(Tail(items))

\* the prefixes the line parser strips, in its order ("•" is left out: no reply of
\* the model holds it)
LinePrefixes == <<"1.", "2.", "3.", "-", "*">>

RECURSIVE StripPrefixes(_, _)
StripPrefixes(clean, prefixes) ==
    IF prefixes = <<>> THEN clean
    ELSE StripPrefixes(
            IF StartsWith(clean, Head(prefixes))
            THEN Strip(SubSeq(clean, Len(Head(prefixes)) + 1, Len(clean)))
            ELSE clean,
            Tail(prefixes))

\* the line of a free-form reply as a question
CleanLine(line) ==
    LET clean == StripPrefixes(line, LinePrefixes)
    IN  IF clean /= "" /\ ~EndsWith(clean, "?") THEN clean \o "?" ELSE clean

MinQuestionLen == 10

MaxQuestionLen == 150

RECURSIVE LineQuestionsOf(_)
LineQuestionsOf(lines) ==
    IF lines = <<>> THEN <<>>
    ELSE LET clean == CleanLine(Strip(Head(lines)))
         IN  (IF Strip(Head(lines)) /= "" /\ MinQuestionLen < Len(clean)
                 /\ Len(clean) < MaxQuestionLen
              THEN <<clean>> ELSE <<>>)
             \o LineQuestionsOf(Tail(lines))

\* the except branch of the parse: one question per non-blank line
LineQuestions(raw) == LineQuestionsOf(Split(raw, "\n"))

\* questions, after the try/except around json.loads
ParsedQuestions(raw) ==
    LET data == JsonLoads(raw)
    IN  IF data.ok /\ data.kind = "list"
        THEN StrippedStrings(data.items)
        ELSE LineQuestions(raw)

IsWordChar(c) == IsLetter(c) \/ c = "-"

\* first position at or after i whose character is no word character
RECURSIVE RunEnd(_, _)
RunEnd(s, i) == IF i > Len(s) \/ ~IsWordChar(Ch(s, i)) THEN i ELSE RunEnd(s, i + 1)

MinWordLen == 3

\* re.findall(r"[A-Za-z][A-Za-z\-]{2,}", s), from position i
RECURSIVE FindWords(_, _)
FindWords(s, i) ==
    IF i > Len(s) THEN <<>>
    ELSE IF IsLetter(Ch(s, i))
    THEN LET j == RunEnd(s, i + 1)
         IN  IF j - i >= MinWordLen
             THEN <<SubSeq(s, i, j - 1)>> \o FindWords(s, j)
             ELSE FindWords(s, i + 1)
    ELSE FindWords(s, i + 1)

StopWords ==
    {"the", "and", "that", "with", "from", "this", "these", "those", "into", "about",
     "which", "their", "there", "have", "has", "will", "would", "could", "should", "for",
     "are", "was", "were", "been", "being", "than", "then", "also", "such", "other",
     "more", "most", "very", "over", "under", "between", "within", "without", "using",
     "use", "used", "based", "including", "example", "examples", "because", "while",
     "when", "where", "what", "why", "how"}

MaxWords == 400

RECURSIVE KeywordsOf(_)
KeywordsOf(words) ==
    IF words = <<>> THEN <<>>
    ELSE (IF Lower(Head(words)) \notin StopWords THEN <<Lower(Head(words))>> ELSE <<>>)
         \o KeywordsOf(Tail(words))

\* keywords of the heuristic fallback
Keywords(text) == KeywordsOf(Take(FindWords(text, 1), MaxWords))

\* the heuristic list of generate_suggested_questions
Heuristic(text) ==
    LET keywords == Keywords(text)
        topic == IF Len(keywords) > 0 THEN keywords[1] ELSE "this topic"
        rel   == IF Len(keywords) > 1 THEN keywords[2] ELSE topic
        extra == IF Len(keywords) > 2 THEN keywords[3] ELSE rel
    IN  << "Can you explain " \o topic \o " in more detail?",
           "How does " \o topic \o " relate to " \o rel \o "?",
           "What are the key factors that influence " \o extra \o "?" >>

NumQuestions == 3

\* what generate_suggested_questions returns once the reply raw is in
SuggestFromReply(text, raw) ==
    LET questions == ParsedQuestions(raw)
    IN  IF Len(questions) >= NumQuestions
        THEN Take(questions, NumQuestions)
        ELSE Heuristic(text)

(***************************************************************************)
(* The inputs of the model: requests and provider replies.                 *)
(***************************************************************************)
\* questions: empty (a missing parameter takes the same branches), two characters
\* after trimming, three characters, and a full question
Messages == {"", " ab ", "sun", "moon tide"}

Levels == {"textbook", "detailed", "advanced", "advanced ", "expert"}

ServiceEntries ==
    {"get_answer", "get_answer_post", "chat_view", "get_chat_response",
     "generate_answer", "generate_textbook_answer"}

PostViews == {"get_answer_post", "chat_view"}

ChatModels == {"gpt-4o", "gpt-4o-mini"}

\* what similarity_search returns: the metadata source of each chunk, or an exception
SearchReplies ==
    { <<>>, <<"notes.pdf", "textbook.pdf">>,
      <<"textbook.pdf", "notes.pdf", "textbook.pdf">> }

SearchOutcomes(k) ==
    {[exc |-> TRUE, docs |-> <<>>]}
    \cup {[exc |-> FALSE, docs |-> d] : d \in {r \in SearchReplies : Len(r) <= k}}

\* message.content of a completion ("" also stands for a content of None)
ChatContents ==
    { "Answer: The Sun is a star. Key Points: 1. It gives light and heat.",
      "  The Moon orbits Earth. \n",
      "",
      "There is Insufficient Information in the textbook context.",
      "Sorry, I DON'T have information about rockets.",
      "This topic is Not in the Textbook.",
      "That cannot be answered.",
      "The answer is not in this textbook: insufficient  information." }

\* str(e) of a failed chat.completions.create
ErrRateLimit == "Error code: 429 - Rate limit reached for requests"

ErrAuth == "Error code: 401 - Incorrect API key provided"

ErrUnsupported == "Error code: 400 - Unsupported parameter: 'max_tokens' is not supported"

ErrUnsupportedBusy == "Error code: 503 - Unsupported parameter: 'max_completion_tokens'"

ChatErrors == {ErrRateLimit, ErrAuth, ErrUnsupported, ErrUnsupportedBusy}

\* the outcome of one chat.completions.create
CreateOutcomes ==
    {[ok |-> TRUE, text |-> c] : c \in ChatContents}
    \cup {[ok |-> FALSE, text |-> e] : e \in ChatErrors}

\* response.content of llm_detailed.invoke, or an exception
InvokeReplies ==
    { "[\"What is a star?\", \"How hot is the Sun?\", \"Why do stars shine?\", \"Is it far?\"]",
      "[\"\", \"Tell me more\", \"Why\"]",
      "[\"How does the Moon move?\", 7]",
      "1. What is a star\n- How hot is the Sun?\n\n* Why do stars shine",
      "- How hot is the Sun\n2. Why?",
      "" }

InvokeOutcomes ==
    {[exc |-> TRUE, raw |-> ""]} \cup {[exc |-> FALSE, raw |-> r] : r \in InvokeReplies}

\* source texts of a direct generate_suggested_questions call
SuggestContexts ==
    { "", "The Moon orbits Earth.",
      "Answer: The Sun is a star. Key Points: 1. It gives light and heat.",
      "It is so: to be or to do, as we go by it." }

(***************************************************************************)
(* _openai_chat                                                            *)
(***************************************************************************)
TransientCodes == {"429", "500", "502", "503", "504"}

\* any(code in msg for code in ["429", "500", "502", "503", "504"])
IsTransient(text) == \E code \in TransientCodes : Contains(text, code)

\* "Unsupported parameter" in msg and ("max_tokens" in msg or "max_completion_tokens" in msg)
IsUnsupportedParam(text) ==
    /\ Contains(text, "Unsupported parameter")
    /\ (Contains(text, "max_tokens") \/ Contains(text, "max_completion_tokens"))

\* temperature of _openai_chat when the caller gives none, in tenths
DefaultTemperature == 2

\* one provider invocation, as the log keeps it
LogEntry(api, res) ==
    [model |-> AttemptModels(chatModel)[mIdx], api |-> api, res |-> res,
     temperature |-> DefaultTemperature]

\* one attempt more
ContinuesOnceMore(text, n) == IsTransient(text) /\ n + 1 < MaxAttempts + 1

\* one attempt fewer
ContinuesTwice(text, n) == IsTransient(text) /\ n + 1 < MaxAttempts - 1

\* every error retried
ContinuesAlways(text, n) == n + 1 < MaxAttempts

\* the inner loop goes on to its next attempt (continue) rather than leaving (break)
Continues(text, n) == IsTransient(text) /\ n + 1 < MaxAttempts

\* a call of _openai_chat from label back
CallChat(model, back) ==
    /\ Call("chat", back)
    /\ chatModel' = model /\ mIdx' = 1 /\ attempt' = 0 /\ msg' = "" /\ log' = <<>>

\* the caller goes on: the record of the call that ended is dropped
DropChat == chatModel' = "" /\ mIdx' = 0 /\ attempt' = 0 /\ msg' = "" /\ log' = <<>>

\* after a failed attempt whose error text is text, no attempt and no model is left
GivesUp(text) == ~Continues(text, attempt) /\ mIdx >= Len(AttemptModels(chatModel))

\* after a failed attempt whose error text is text: the next attempt, the next
\* model, or the RuntimeError after the loops
AfterFailure(text) ==
    IF Continues(text, attempt)
    THEN /\ pc' = "chat" /\ attempt' = attempt + 1
         /\ UNCHANGED <<stack, ret, mIdx>>
    ELSE IF ~GivesUp(text)
    THEN /\ pc' = "chat" /\ mIdx' = mIdx + 1 /\ attempt' = 0
         /\ UNCHANGED <<stack, ret>>
    ELSE Raise /\ UNCHANGED <<mIdx, attempt>>

\* the input of a provider invocation: the api, the model or k, the request
ProviderInput(api, detail) == <<api, detail, req.entry, req.message, req.level>>

\* providers that reply anything to anything, whatever they replied before
RepliesAnything(input, out) == providers' = providers

\* a provider replies out to input: any reply, or the one it gave to this input before
\* when the providers are deterministic
Replies(input, out) ==
    /\ (providers.deterministic /\ input \in DOMAIN providers.replies)
          => out = providers.replies[input]
    /\ providers' = IF providers.deterministic /\ input \notin DOMAIN providers.replies
                    THEN [providers EXCEPT !.replies = (input :> out) @@ @]
                    ELSE providers

\* one attempt: client.chat.completions.create(**payload)
ChatCreate ==
    /\ pc = "chat"
    /\ \E out \in CreateOutcomes :
          /\ Replies(ProviderInput("create", AttemptModels(chatModel)[mIdx]), out)
          /\ IF out.ok
             THEN /\ log' = Append(log, LogEntry("create", "ok"))
                  /\ trace' = [trace EXCEPT !.create = @ + 1, !.chat = "ok",
                                            !.generated = Strip(out.text)]
                  /\ Return(Strip(out.text))
                  /\ UNCHANGED <<mIdx, attempt, msg>>
             ELSE /\ log' = Append(log, LogEntry("create", out.text))
                  /\ IF IsUnsupportedParam(out.text)
                     THEN /\ pc' = "chat_resend" /\ msg' = out.text
                          /\ trace' = [trace EXCEPT !.create = @ + 1]
                          /\ UNCHANGED <<stack, ret, mIdx, attempt>>
                     ELSE /\ AfterFailure(out.text) /\ msg' = ""
                          /\ trace' = [trace EXCEPT !.create = @ + 1,
                                          !.chat = IF GivesUp(out.text) THEN "failed" ELSE @]
    /\ UNCHANGED <<req, storeAvailable, argK, chunks, viewChunks, answer, context, chatModel>>
    /\ UNCHANGED <<otherVars, first>>

\* the outcome of the re-send; the text of its error is not read
ResendOutcomes ==
    {[ok |-> TRUE, text |-> c] : c \in ChatContents} \cup {[ok |-> FALSE, text |-> "error"]}

\* the re-send without max_tokens: client.chat.completions.create(**payload_no_max)
ChatResend ==
    /\ pc = "chat_resend"
    /\ \E out \in ResendOutcomes :
          /\ Replies(ProviderInput("resend", AttemptModels(chatModel)[mIdx]), out)
          /\ IF out.ok
             THEN /\ log' = Append(log, LogEntry("resend", "ok"))
                  /\ trace' = [trace EXCEPT !.create = @ + 1, !.chat = "ok",
                                            !.generated = Strip(out.text)]
                  /\ Return(Strip(out.text))
                  /\ UNCHANGED <<mIdx, attempt>>
             ELSE /\ log' = Append(log, LogEntry("resend", "error"))
                  /\ trace' = [trace EXCEPT !.create = @ + 1,
                                  !.chat = IF GivesUp(msg) THEN "failed" ELSE @]
                  /\ AfterFailure(msg)
       /\ msg' = ""
    /\ UNCHANGED <<req, storeAvailable, argK, chunks, viewChunks, answer, context, chatModel>>
    /\ UNCHANGED <<otherVars, first>>

(***************************************************************************)
(* retrieve_textbook_chunks and generate_suggested_questions               *)
(***************************************************************************)
\* the chunks whose metadata source is textbook.pdf
TextbookOnly(docs) == SelectSeq(docs, LAMBDA d : d = "textbook.pdf")

\* the exception of similarity_search let through
RetrieveResultUncaught(reply) ==
    [exc |-> reply.exc, val |-> IF reply.exc THEN <<>> ELSE TextbookOnly(reply.docs)]

\* what retrieve_textbook_chunks returns on the reply of similarity_search
RetrieveResult(reply) ==
    [exc |-> FALSE, val |-> IF reply.exc THEN <<>> ELSE TextbookOnly(reply.docs)]

RetrieveTextbookChunks ==
    /\ pc = "rtc"
    /\ IF ~storeAvailable
       THEN /\ Return(<<>>) /\ trace' = [trace EXCEPT !.retrieved = Append(@, 0)]
            /\ UNCHANGED providers
       ELSE \E reply \in SearchOutcomes(argK) :
               /\ Replies(ProviderInput("search", ToString(argK)), reply)
               /\ trace' = [trace EXCEPT !.search = @ + 1, !.raised = @ \/ reply.exc,
                                         !.retrieved = Append(@, Len(RetrieveResult(reply).val))]
               /\ End(RetrieveResult(reply).exc, RetrieveResult(reply).val)
    /\ argK' = 0
    /\ UNCHANGED <<req, storeAvailable, chunks, viewChunks, answer, context,
                   chatModel, mIdx, attempt, msg, log>>
    /\ UNCHANGED <<otherVars, first>>

\* the exception of llm_detailed.invoke let through
SuggestResultUncaught(text, reply) ==
    [exc |-> reply.exc,
     val |-> IF reply.exc THEN GetFallbackQuestions ELSE SuggestFromReply(text, reply.raw)]

\* what generate_suggested_questions returns on the reply of llm_detailed.invoke
SuggestResult(text, reply) ==
    [exc |-> FALSE,
     val |-> IF reply.exc THEN GetFallbackQuestions ELSE SuggestFromReply(text, reply.raw)]

GenerateSuggestedQuestions ==
    /\ pc = "gsq"
    /\ IF context = "" \/ Len(context) < MinContextLen
       THEN Return(GetFallbackQuestions) /\ UNCHANGED <<trace, providers>>
       ELSE \E reply \in InvokeOutcomes :
               /\ Replies(ProviderInput("invoke", context), reply)
               /\ trace' = [trace EXCEPT !.invoke = @ + 1,
                                         !.raw = IF reply.exc THEN None ELSE reply.raw]
               /\ End(SuggestResult(context, reply).exc, SuggestResult(context, reply).val)
    /\ context' = ""
    /\ UNCHANGED <<req, storeAvailable, argK, chunks, viewChunks, answer,
                   chatModel, mIdx, attempt, msg, log>>
    /\ UNCHANGED <<otherVars, first>>

(***************************************************************************)
(* generate_textbook_answer                                                *)
(***************************************************************************)
GenerateTextbookAnswer ==
    /\ pc = "generate_textbook_answer"
    /\ Call("rtc", "gta_chunks")
    /\ argK' = MaxChunks("textbook")
    /\ UNCHANGED <<req, storeAvailable, chunks, viewChunks, answer, context,
                   chatModel, mIdx, attempt, msg, log, trace>>
    /\ UNCHANGED restVars

\* chunks is None
HasNoChunksIsNone(c) == c = None

\* not chunks
HasNoChunks(c) == c = <<>>

\* if not chunks: the no-passages dictionary; else the call of _openai_chat
TextbookChunks ==
    /\ pc = "gta_chunks"
    /\ IF ret.exc
       THEN Raise /\ UNCHANGED <<chunks, chatModel, mIdx, attempt, msg, log>>
       ELSE IF HasNoChunks(ret.val)
       THEN /\ Return(NoPassagesResult(req.message))
            /\ UNCHANGED <<chunks, chatModel, mIdx, attempt, msg, log>>
       ELSE /\ chunks' = ret.val
            /\ CallChat(TaskRouterModel("textbook"), "gta_chat")
    /\ UNCHANGED <<req, storeAvailable, argK, viewChunks, answer, context, trace>>
    /\ UNCHANGED restVars

\* what generate_textbook_answer does with the outcome r of _openai_chat:
\* "error", "hedge" or "answer"
TextbookVerdict(r) ==
    IF r.exc THEN "error" ELSE IF IsHedged(r.val) THEN "hedge" ELSE "answer"

TextbookChat ==
    /\ pc = "gta_chat"
    /\ DropChat
    /\ CASE TextbookVerdict(ret) = "error" ->
              /\ Return(TextbookErrorResult(req.message))
              /\ chunks' = <<>> /\ UNCHANGED <<answer, context>>
         [] TextbookVerdict(ret) = "hedge" ->
              /\ Return(HedgeResult(req.message))
              /\ chunks' = <<>> /\ UNCHANGED <<answer, context>>
         [] OTHER ->
              /\ Call("gsq", "gta_questions")
              /\ answer' = ret.val /\ context' = ret.val
              /\ UNCHANGED chunks
    /\ UNCHANGED <<req, storeAvailable, argK, viewChunks, trace>>
    /\ UNCHANGED restVars

TextbookQuestions ==
    /\ pc = "gta_questions"
    /\ IF ret.exc
       THEN Return(TextbookErrorResult(req.message))
       ELSE Return(TextbookSuccessResult(answer, ret.val, Len(chunks)))
    /\ chunks' = <<>> /\ answer' = ""
    /\ UNCHANGED <<req, storeAvailable, argK, viewChunks, context,
                   chatModel, mIdx, attempt, msg, log, trace>>
    /\ UNCHANGED restVars

(***************************************************************************)
(* generate_detailed_answer and generate_advanced_answer                   *)
(***************************************************************************)
GenerateDetailedAnswer ==
    /\ pc = "generate_detailed_answer"
    /\ Call("rtc", "gda_chunks")
    /\ argK' = MaxChunks("detailed")
    /\ UNCHANGED <<req, storeAvailable, chunks, viewChunks, answer, context,
                   chatModel, mIdx, attempt, msg, log, trace>>
    /\ UNCHANGED restVars

DetailedChunks ==
    /\ pc = "gda_chunks"
    /\ IF ret.exc
       THEN Raise /\ UNCHANGED <<chatModel, mIdx, attempt, msg, log>>
       ELSE IF HasNoChunks(ret.val)
       THEN Return(NoDetailedContent) /\ UNCHANGED <<chatModel, mIdx, attempt, msg, log>>
       ELSE CallChat(TaskRouterModel("detailed"), "gda_chat")
    /\ UNCHANGED <<req, storeAvailable, argK, chunks, viewChunks, answer, context, trace>>
    /\ UNCHANGED restVars

\* the hedge check of textbook mode applied to the other modes as well
AnswerOrErrorTextValidated(r, level) ==
    [exc |-> FALSE,
     val |-> IF r.exc THEN ErrorText(level)
             ELSE IF IsHedged(r.val) THEN NoDetailedContent ELSE r.val]

\* the try/except around the _openai_chat call of generate_<level>_answer
AnswerOrErrorText(r, level) ==
    [exc |-> FALSE, val |-> IF r.exc THEN ErrorText(level) ELSE r.val]

DetailedChat ==
    /\ pc = "gda_chat"
    /\ DropChat
    /\ End(AnswerOrErrorText(ret, "detailed").exc, AnswerOrErrorText(ret, "detailed").val)
    /\ UNCHANGED <<req, storeAvailable, argK, chunks, viewChunks, answer, context, trace>>
    /\ UNCHANGED restVars

GenerateAdvancedAnswer ==
    /\ pc = "generate_advanced_answer"
    /\ Call("rtc", "gaa_chunks")
    /\ argK' = MaxChunks("advanced")
    /\ UNCHANGED <<req, storeAvailable, chunks, viewChunks, answer, context,
                   chatModel, mIdx, attempt, msg, log, trace>>
    /\ UNCHANGED restVars

\* with or without chunks, the call of _openai_chat
AdvancedChunks ==
    /\ pc = "gaa_chunks"
    /\ IF ret.exc
       THEN Raise /\ UNCHANGED <<chatModel, mIdx, attempt, msg, log>>
       ELSE CallChat(TaskRouterModel("advanced"), "gaa_chat")
    /\ UNCHANGED <<req, storeAvailable, argK, chunks, viewChunks, answer, context, trace>>
    /\ UNCHANGED restVars

AdvancedChat ==
    /\ pc = "gaa_chat"
    /\ DropChat
    /\ End(AnswerOrErrorText(ret, "advanced").exc, AnswerOrErrorText(ret, "advanced").val)
    /\ UNCHANGED <<req, storeAvailable, argK, chunks, viewChunks, answer, context, trace>>
    /\ UNCHANGED restVars

(***************************************************************************)
(* generate_answer and get_chat_response                                   *)
(***************************************************************************)
\* len(message.strip()) < 3 of generate_answer
MinMessageLen == 3

\* not message or len(message.strip()) < 3
IsInvalidMessage(message) == message = "" \/ Len(Strip(message)) < MinMessageLen

\* the method generate_answer dispatches level to, or "" for the ValueError
Dispatch(level) ==
    CASE level = "textbook" -> "generate_textbook_answer"
      [] level = "detailed" -> "generate_detailed_answer"
      [] level = "advanced" -> "generate_advanced_answer"
      [] OTHER -> ""

GenerateAnswer ==
    /\ pc = "generate_answer"
    /\ IF IsInvalidMessage(req.message)
       THEN Return(InvalidQuestionText)
       ELSE IF Dispatch(req.level) = ""
       THEN Return(ErrorText(req.level))
       ELSE Call(Dispatch(req.level), "ga_result")
    /\ UNCHANGED <<req, storeAvailable, argK, chunks, viewChunks, answer, context,
                   chatModel, mIdx, attempt, msg, log, trace>>
    /\ UNCHANGED restVars

\* the try/except of generate_answer around the dispatched call, whose outcome is r
AnswerText(r, level) ==
    [exc |-> FALSE,
     val |-> IF r.exc THEN ErrorText(level)
             ELSE IF level = "textbook" THEN r.val.answer ELSE r.val]

AnswerResult ==
    /\ pc = "ga_result"
    /\ End(AnswerText(ret, req.level).exc, AnswerText(ret, req.level).val)
    /\ UNCHANGED <<req, storeAvailable, argK, chunks, viewChunks, answer, context,
                   chatModel, mIdx, attempt, msg, log, trace>>
    /\ UNCHANGED restVars

GetChatResponse ==
    /\ pc = "get_chat_response"
    /\ IF req.level = "textbook"
       THEN Call("generate_textbook_answer", "gcr_textbook")
       ELSE Call("generate_answer", "gcr_answer")
    /\ UNCHANGED <<req, storeAvailable, argK, chunks, viewChunks, answer, context,
                   chatModel, mIdx, attempt, msg, log, trace>>
    /\ UNCHANGED restVars

\* the dictionary get_chat_response builds from the textbook result
TextbookResponse(result, level) ==
    [ answer |-> result.answer,
      suggested_questions |-> Get(result, "suggested_questions", <<>>),
      level |-> level,
      success |-> Get(result, "success", TRUE),
      source |-> Get(result, "source", "textbook_only"),
      used_mode |-> Get(result, "used_mode", "textbook"),
      mode_notes |-> Get(result, "mode_notes", None) ]

ChatResponseTextbook ==
    /\ pc = "gcr_textbook"
    /\ IF ret.exc THEN Raise ELSE Return(TextbookResponse(ret.val, req.level))
    /\ UNCHANGED <<req, storeAvailable, argK, chunks, viewChunks, answer, context,
                   chatModel, mIdx, attempt, msg, log, trace>>
    /\ UNCHANGED restVars

ChatResponseAnswer ==
    /\ pc = "gcr_answer"
    /\ IF ret.exc
       THEN Raise /\ UNCHANGED <<answer, context>>
       ELSE Call("gsq", "gcr_questions") /\ answer' = ret.val /\ context' = ret.val
    /\ UNCHANGED <<req, storeAvailable, argK, chunks, viewChunks,
                   chatModel, mIdx, attempt, msg, log, trace>>
    /\ UNCHANGED restVars

\* the dictionary get_chat_response builds for the other levels
OtherResponse(text, questions, level) ==
    LET used_mode == IF level \in ValidLevels THEN level ELSE "textbook"
    IN  [ answer |-> text,
          suggested_questions |-> questions,
          level |-> level,
          success |-> TRUE,
          source |-> level \o "_mode",
          used_mode |-> used_mode,
          mode_notes |-> IF used_mode = "detailed"
                         THEN "Detailed mode: textbook grounded with light elaboration"
                         ELSE "Advanced mode: allows deeper reasoning beyond textbook" ]

ChatResponseQuestions ==
    /\ pc = "gcr_questions"
    /\ IF ret.exc THEN Raise ELSE Return(OtherResponse(answer, ret.val, req.level))
    /\ answer' = ""
    /\ UNCHANGED <<req, storeAvailable, argK, chunks, viewChunks, context,
                   chatModel, mIdx, attempt, msg, log, trace>>
    /\ UNCHANGED restVars

(***************************************************************************)
(* The views: get_answer, get_answer_post, chat_view                       *)
(***************************************************************************)
\* len(query.strip()) < 4 of the views
MinQueryLen == 4

\* a JsonResponse that reports an error
ErrorResponse(status, text) == [status |-> status, success |-> FALSE, error |-> text]

\* the 400 response of get_answer and get_answer_post, or "" when the request passes
Rejection(query, level, missing) ==
    IF query = "" THEN missing
    ELSE IF Strip(query) = "" \/ Len(Strip(query)) < MinQueryLen
    THEN "Query must be at least 4 characters long"
    ELSE IF level \notin ValidLevels
    THEN "Invalid level. Must be one of: textbook, detailed, advanced"
    ELSE ""

GetAnswer ==
    /\ pc = "get_answer"
    /\ LET level == Strip(req.level)
           error == Rejection(req.message, level, "Query parameter is required")
       IN  IF error /= ""
           THEN Return(ErrorResponse(400, error)) /\ UNCHANGED <<req, argK>>
           ELSE /\ Call("rtc", "get_answer_chunks")
                /\ argK' = DefaultK
                /\ req' = [req EXCEPT !.level = level]
    /\ UNCHANGED <<storeAvailable, chunks, viewChunks, answer, context,
                   chatModel, mIdx, attempt, msg, log, trace>>
    /\ UNCHANGED restVars

ServerError == ErrorResponse(500, "An error occurred while processing your request: exception")

GetAnswerChunks ==
    /\ pc = "get_answer_chunks"
    /\ IF ret.exc
       THEN Return(ServerError) /\ UNCHANGED viewChunks
       ELSE Call("generate_answer", "get_answer_answer") /\ viewChunks' = ret.val
    /\ UNCHANGED <<req, storeAvailable, argK, chunks, answer, context,
                   chatModel, mIdx, attempt, msg, log, trace>>
    /\ UNCHANGED restVars

GetAnswerAnswer ==
    /\ pc = "get_answer_answer"
    /\ IF ret.exc
       THEN Return(ServerError) /\ viewChunks' = <<>> /\ UNCHANGED <<answer, context>>
       ELSE /\ Call("gsq", "get_answer_questions")
            /\ answer' = ret.val /\ context' = ret.val
            /\ UNCHANGED viewChunks
    /\ UNCHANGED <<req, storeAvailable, argK, chunks,
                   chatModel, mIdx, attempt, msg, log, trace>>
    /\ UNCHANGED restVars

\* the 200 response of the views that answer with chunks
AnswerResponse(text, questions, level, n) ==
    [ status |-> 200, success |-> TRUE, level |-> level, answer |-> text,
      suggested_questions |-> questions, num_chunks_retrieved |-> n ]

\* [q for q in suggested_questions if q.strip()]
RECURSIVE NonBlank(_)
NonBlank(questions) ==
    IF questions = <<>> THEN <<>>
    ELSE (IF Strip(Head(questions)) /= "" THEN <<Head(questions)>> ELSE <<>>)
         \o NonBlank(Tail(questions))

GetAnswerQuestions ==
    /\ pc = "get_answer_questions"
    /\ IF ret.exc
       THEN Return(ServerError)
       ELSE Return(AnswerResponse(answer, NonBlank(ret.val), req.level, Len(viewChunks)))
    /\ viewChunks' = <<>> /\ answer' = ""
    /\ UNCHANGED <<req, storeAvailable, argK, chunks, context,
                   chatModel, mIdx, attempt, msg, log, trace>>
    /\ UNCHANGED restVars

GetAnswerPost ==
    /\ pc = "get_answer_post"
    /\ LET error == Rejection(req.message, req.level, "Query is required")
       IN  IF error /= ""
           THEN Return(ErrorResponse(400, error))
           ELSE Call("get_chat_response", "post_response")
    /\ UNCHANGED <<req, storeAvailable, argK, chunks, viewChunks, answer, context,
                   chatModel, mIdx, attempt, msg, log, trace>>
    /\ UNCHANGED restVars

PostResponse ==
    /\ pc = "post_response"
    /\ IF ret.exc
       THEN Return(ServerError) /\ UNCHANGED <<answer, argK>>
       ELSE Call("rtc", "post_chunks") /\ answer' = ret.val /\ argK' = DefaultK
    /\ UNCHANGED <<req, storeAvailable, chunks, viewChunks, context,
                   chatModel, mIdx, attempt, msg, log, trace>>
    /\ UNCHANGED restVars

PostChunks ==
    /\ pc = "post_chunks"
    /\ IF ret.exc
       THEN Return(ServerError)
       ELSE Return(AnswerResponse(answer.answer, answer.suggested_questions,
                                  req.level, Len(ret.val)))
    /\ answer' = ""
    /\ UNCHANGED <<req, storeAvailable, argK, chunks, viewChunks, context,
                   chatModel, mIdx, attempt, msg, log, trace>>
    /\ UNCHANGED restVars

ChatView ==
    /\ pc = "chat_view"
    /\ IF req.message = "" \/ Len(Strip(req.message)) < MinQueryLen
       THEN Return(ErrorResponse(200, "Please provide a valid question (at least 4 characters)."))
       ELSE Call("get_chat_response", "chat_view_response")
    /\ UNCHANGED <<req, storeAvailable, argK, chunks, viewChunks, answer, context,
                   chatModel, mIdx, attempt, msg, log, trace>>
    /\ UNCHANGED restVars

ChatViewResponse ==
    /\ pc = "chat_view_response"
    /\ IF ret.exc
       THEN Return(ErrorResponse(200, "An error occurred: exception"))
       ELSE Return([ status |-> 200, success |-> TRUE, answer |-> ret.val.answer,
                     suggested_questions |-> ret.val.suggested_questions,
                     level |-> ret.val.level ])
    /\ UNCHANGED <<req, storeAvailable, argK, chunks, viewChunks, answer, context,
                   chatModel, mIdx, attempt, msg, log, trace>>
    /\ UNCHANGED restVars

(***************************************************************************)
(* translator._LRUCache: an OrderedDict with a capacity                    *)
(***************************************************************************)
\* translation_cache = _LRUCache(capacity=64)
TranslationCacheCapacity == 64

\* the capacities of the caches under study are 0..MaxCapacity
MaxCapacity == 2

CacheKeysUsed == {"k1", "k2", "k3"}

CacheValues == {"v1", "v2"}

\* the keys of the items c
CacheKeys(c) == {c[i][1] : i \in 1..Len(c)}

\* key in self
Has(c, key) == key \in CacheKeys(c)

\* self[key]
Lookup(c, key) == c[CHOOSE i \in 1..Len(c) : c[i][1] = key][2]

\* super().pop(key): the items left
Without(c, key) == SelectSeq(c, LAMBDA item : item[1] /= key)

\* a get that leaves the order of the items as it is
LruGetNoTouch(c, key) ==
    [value |-> IF Has(c, key) THEN Lookup(c, key) ELSE None, items |-> c]

\* _LRUCache.get: the value returned and the items afterwards
LruGet(c, key) ==
    IF ~Has(c, key)
    THEN [value |-> None, items |-> c]
    ELSE [value |-> Lookup(c, key),
          items |-> Append(Without(c, key), <<key, Lookup(c, key)>>)]

\* an existing key is left in its place and keeps its value
LruSetKeepsOld(c, cap, key, value) ==
    IF Has(c, key) THEN [exc |-> FALSE, items |-> c]
    ELSE [exc |-> FALSE, items |-> Append(IF Len(c) >= cap /\ c /= <<>> THEN Tail(c) ELSE c,
                                          <<key, value>>)]

\* _LRUCache.set: the items afterwards, or the KeyError of popitem on an empty dict
LruSet(c, cap, key, value) ==
    IF Has(c, key)
    THEN [exc |-> FALSE, items |-> Append(Without(c, key), <<key, value>>)]
    ELSE IF Len(c) >= cap
    THEN IF c = <<>>
         THEN [exc |-> TRUE, items |-> c]
         ELSE [exc |-> FALSE, items |-> Append(Tail(c), <<key, value>>)]
    ELSE [exc |-> FALSE, items |-> Append(c, <<key, value>>)]

\* key becomes the most recently touched one
Touch(order, key) == Append(SelectSeq(order, LAMBDA k : k /= key), key)

NoCacheOp ==
    [op |-> "none", key |-> "", value |-> None, result |-> None, exc |-> FALSE,
     before |-> <<>>, touched |-> <<>>]

\* the module's translation_cache, not in use
NoCache ==
    /\ cache = <<>> /\ capacity = TranslationCacheCapacity
    /\ recency = <<>> /\ cacheOp = NoCacheOp /\ lastSet = <<>>

\* cache.get(key)
CacheGet ==
    /\ \E key \in CacheKeysUsed :
          /\ cache' = LruGet(cache, key).items
          /\ cacheOp' = [op |-> "get", key |-> key, value |-> None,
                         result |-> LruGet(cache, key).value, exc |-> FALSE,
                         before |-> cache, touched |-> recency]
          /\ recency' = IF Has(cache, key) THEN Touch(recency, key) ELSE recency
    /\ UNCHANGED <<capacity, lastSet, llmVars, sessionVars, callVars>>

\* cache.set(key, value)
CacheSet ==
    /\ \E key \in CacheKeysUsed, value \in CacheValues :
          LET r == LruSet(cache, capacity, key, value)
          IN  /\ cache' = r.items
              /\ cacheOp' = [op |-> "set", key |-> key, value |-> value, result |-> None,
                             exc |-> r.exc, before |-> cache, touched |-> recency]
              /\ recency' = IF r.exc THEN recency ELSE Touch(recency, key)
              /\ lastSet' = IF r.exc THEN lastSet
                            ELSE [k \in (DOMAIN lastSet \cup {key}) \cap CacheKeys(r.items) |->
                                     IF k = key THEN value ELSE lastSet[k]]
    /\ UNCHANGED <<capacity, llmVars, sessionVars, callVars>>

(***************************************************************************)
(* translation_cache shared by request threads.  _LRUCache takes no lock;  *)
(* a thread can be switched between any two of its dictionary operations.  *)
(***************************************************************************)
ThreadIds == {1, 2}

\* a thread outside get and set
IdleThread == [pc |-> "idle", key |-> "", value |-> None, raised |-> FALSE, result |-> None]

\* no thread is in a call
NoThreads == threads = [t \in ThreadIds |-> IdleThread]

\* super().__setitem__(key, value): a key the dictionary holds keeps its place
SetItem(c, key, value) ==
    IF Has(c, key)
    THEN [i \in 1..Len(c) |-> IF c[i][1] = key THEN <<key, value>> ELSE c[i]]
    ELSE Append(c, <<key, value>>)

\* thread t goes on to label, or ends its call with a result or a KeyError
ThreadAt(t, label) == threads' = [threads EXCEPT ![t].pc = label]

ThreadReturns(t, result) ==
    threads' = [threads EXCEPT ![t] = [IdleThread EXCEPT !.result = result]]

ThreadRaises(t) == threads' = [threads EXCEPT ![t] = [IdleThread EXCEPT !.raised = TRUE]]

\* get(key), line 327: if key not in self: return None
ThreadGet ==
    /\ \E t \in ThreadIds, key \in CacheKeysUsed :
          /\ threads[t].pc = "idle"
          /\ IF ~Has(cache, key)
             THEN ThreadReturns(t, None)
             ELSE threads' = [threads EXCEPT ![t] = [IdleThread EXCEPT !.pc = "get_pop",
                                                                      !.key = key]]
    /\ UNCHANGED <<cacheVars, llmVars, sessionVars, viewVars>>

\* get, line 329: value = super().pop(key)
ThreadGetPop ==
    /\ \E t \in ThreadIds :
          /\ threads[t].pc = "get_pop"
          /\ IF ~Has(cache, threads[t].key)
             THEN ThreadRaises(t) /\ UNCHANGED cache
             ELSE /\ threads' = [threads EXCEPT ![t].pc = "get_set",
                                               ![t].value = Lookup(cache, threads[t].key)]
                  /\ cache' = Without(cache, threads[t].key)
    /\ UNCHANGED <<capacity, recency, cacheOp, lastSet, llmVars, sessionVars, viewVars>>

\* get, lines 330-331: super().__setitem__(key, value); return value
ThreadGetSet ==
    /\ \E t \in ThreadIds :
          /\ threads[t].pc = "get_set"
          /\ cache' = SetItem(cache, threads[t].key, threads[t].value)
          /\ ThreadReturns(t, threads[t].value)
    /\ UNCHANGED <<capacity, recency, cacheOp, lastSet, llmVars, sessionVars, viewVars>>

\* set(key, value), line 334: if key in self
ThreadSet ==
    /\ \E t \in ThreadIds, key \in CacheKeysUsed, value \in CacheValues :
          /\ threads[t].pc = "idle"
          /\ threads' = [threads EXCEPT ![t] =
                            [IdleThread EXCEPT !.pc = IF Has(cache, key) THEN "set_pop"
                                                     ELSE "set_len",
                                               !.key = key, !.value = value]]
    /\ UNCHANGED <<cacheVars, llmVars, sessionVars, viewVars>>

\* set, line 335: super().pop(key)
ThreadSetPop ==
    /\ \E t \in ThreadIds :
          /\ threads[t].pc = "set_pop"
          /\ IF ~Has(cache, threads[t].key)
             THEN ThreadRaises(t) /\ UNCHANGED cache
             ELSE ThreadAt(t, "set_item") /\ cache' = Without(cache, threads[t].key)
    /\ UNCHANGED <<capacity, recency, cacheOp, lastSet, llmVars, sessionVars, viewVars>>

\* set, line 336: elif len(self) >= self.capacity
ThreadSetLen ==
    /\ \E t \in ThreadIds :
          /\ threads[t].pc = "set_len"
          /\ ThreadAt(t, IF Len(cache) >= capacity THEN "set_evict" ELSE "set_item")
    /\ UNCHANGED <<cacheVars, llmVars, sessionVars, viewVars>>

\* set, line 337: self.popitem(last=False)
ThreadSetEvict ==
    /\ \E t \in ThreadIds :
          /\ threads[t].pc = "set_evict"
          /\ IF cache = <<>>
             THEN ThreadRaises(t) /\ UNCHANGED cache
             ELSE ThreadAt(t, "set_item") /\ cache' = Tail(cache)
    /\ UNCHANGED <<capacity, recency, cacheOp, lastSet, llmVars, sessionVars, viewVars>>

\* set, line 338: super().__setitem__(key, value)
ThreadSetItem ==
    /\ \E t \in ThreadIds :
          /\ threads[t].pc = "set_item"
          /\ cache' = SetItem(cache, threads[t].key, threads[t].value)
          /\ ThreadReturns(t, None)
    /\ UNCHANGED <<capacity, recency, cacheOp, lastSet, llmVars, sessionVars, viewVars>>

(***************************************************************************)
(* translator.RateLimiter and views/translate_view.py.  The text of a      *)
(* request is kept as parts, the chunks split_text_into_chunks(text, 900)  *)
(* gives for it (<<>>: a text that is empty after strip).                  *)
(***************************************************************************)
\* RateLimiter(max_per_minute=30)
MaxPerMinute == 30

\* the window of allow(), in seconds
WindowSeconds == 60

\* RateLimiter.__init__
NewLimiter == [window_start |-> 0, count |-> 0]

\* one more call returns True in a window
AllowOneMore(l, t) ==
    LET w == IF t - l.window_start >= WindowSeconds
             THEN [window_start |-> t, count |-> 0]
             ELSE l
    IN  IF w.count <= MaxPerMinute
        THEN [ok |-> TRUE, limiter |-> [w EXCEPT !.count = @ + 1]]
        ELSE [ok |-> FALSE, limiter |-> w]

\* RateLimiter.allow() at time t: what it returns and the limiter afterwards
Allow(l, t) ==
    LET w == IF t - l.window_start >= WindowSeconds
             THEN [window_start |-> t, count |-> 0]
             ELSE l
    IN  IF w.count < MaxPerMinute
        THEN [ok |-> TRUE, limiter |-> [w EXCEPT !.count = @ + 1]]
        ELSE [ok |-> FALSE, limiter |-> w]

\* no allow() call yet
NoRate == [result |-> "none", granted |-> 0]

\* the clock runs from WindowSeconds, a time long after the epoch, to MaxClock
MaxClock == 185

\* the seconds that pass between two calls
ClockSteps == {20, 59, 60}

\* rate_limiter.allow() at the time now
AllowCall ==
    /\ limiter' = Allow(limiter, now).limiter
    /\ rate' = [result |-> IF Allow(limiter, now).ok THEN "True" ELSE "False",
                granted |-> (IF limiter'.window_start # limiter.window_start
                             THEN 0 ELSE rate.granted)
                            + (IF Allow(limiter, now).ok THEN 1 ELSE 0)]
    /\ UNCHANGED <<tr, configured, now, sessions, gradeCache, response, returned,
                   cacheVars, threads, llmVars>>

\* time passes
ClockAdvance ==
    /\ \E d \in ClockSteps : now + d <= MaxClock /\ now' = now + d
    /\ UNCHANGED <<viewVars, sessions, gradeCache, response, returned, cacheVars, threads,
                   llmVars>>

\* max_workers of the pool: min(4, len(parts))
MaxWorkers == 4

\* as many workers as there are parts
PoolSizeUnbounded(n) == n

PoolSize(n) == IF n < MaxWorkers THEN n ELSE MaxWorkers

\* the texts of the requests, as their chunks
PartLists == {<<>>, <<"Hello">>, <<"One.", "Two.", "Three.", "Four.", "Five.">>}

\* targetLang of a body
TargetLangs == {"ar", "fr"}

\* the translation the provider gives for a chunk
Translate(p) == "[" \o p \o "]"

\* "sep".join(seq)
RECURSIVE Join(_, _)
Join(seq, sep) ==
    IF seq = <<>> THEN ""
    ELSE IF Len(seq) = 1 THEN seq[1]
    ELSE seq[1] \o sep \o Join(Tail(seq), sep)

\* f"{source_lang or 'auto'}->{target_lang}:{hash(text)}", texts told apart by their hash
CacheKey(source, target, parts) == <<source \o "->" \o target, parts>>

\* the exception of a future let through
FutureResultUncaught(ok, p) == [exc |-> ~ok, text |-> IF ok THEN Translate(p) ELSE ""]

\* results[idx] after the try/except around fut.result()
FutureResult(ok, p) == [exc |-> FALSE, text |-> IF ok THEN Translate(p) ELSE ""]

\* a response of translate_view; failed: the chunks whose translation raised
TranslateResponse(status, text, cached, n, failed, parts) ==
    [status |-> status, success |-> status = 200, translatedText |-> text,
     cached |-> cached, chunks |-> n, failed |-> failed, parts |-> parts]

NoTranslateResponse == TranslateResponse(0, "", FALSE, 0, {}, <<>>)

\* no request in translate_view
IdleTranslate ==
    [pc |-> "idle", parts |-> <<>>, key |-> <<>>, detected |-> "",
     status |-> <<>>, results |-> <<>>]

NoTranslation ==
    /\ tr = [call |-> IdleTranslate, served |-> 0, response |-> NoTranslateResponse]
    /\ limiter = NewLimiter /\ configured = TRUE /\ rate = NoRate

\* no concurrent request, no translate request
NoCalls == NoThreads /\ NoTranslation

\* the requests of a run
MaxRequests == 2

\* a response without a translation
Refusal(status) == TranslateResponse(status, "", FALSE, 0, {}, <<>>)

\* translate_view up to the fan-out: lines 27-69
TranslateView ==
    /\ tr.call.pc = "idle" /\ tr.served < MaxRequests
    /\ \E shape \in {"ok", "body"}, parts \in PartLists, target \in TargetLangs :
          LET gate == Allow(limiter, now)
              detected == "en"
              key == CacheKey(detected, target, parts)
              ends(resp) == tr' = [tr EXCEPT !.served = @ + 1, !.response = resp]
          IN  IF shape = "body" \/ parts = <<>> \/ target \notin {"en", "ar"}
              THEN ends(Refusal(400)) /\ UNCHANGED <<limiter, cache>>
              ELSE IF ~configured
              THEN ends(Refusal(503)) /\ UNCHANGED <<limiter, cache>>
              ELSE /\ limiter' = gate.limiter
                   /\ IF ~gate.ok
                      THEN ends(Refusal(429)) /\ UNCHANGED cache
                      ELSE IF Has(cache, key)
                      THEN /\ cache' = LruGet(cache, key).items
                           /\ ends(TranslateResponse(200, LruGet(cache, key).value.text,
                                                     TRUE, 0, {}, parts))
                      ELSE /\ UNCHANGED cache
                           /\ tr' = [tr EXCEPT !.served = @ + 1,
                                       !.call = [pc |-> "fanout", parts |-> parts, key |-> key,
                                                 detected |-> detected,
                                                 status |-> [i \in 1..Len(parts) |-> "queued"],
                                                 results |-> [i \in 1..Len(parts) |->
                                                                FutureResult(TRUE, "")]]]
    /\ UNCHANGED <<configured, rate, capacity, recency, cacheOp, lastSet, threads,
                   llmVars, sessionVars>>

\* the chunks a worker is translating
Running == {i \in 1..Len(tr.call.status) : tr.call.status[i] = "running"}

\* a worker of the pool takes the next submitted chunk
WorkerStart ==
    /\ tr.call.pc = "fanout"
    /\ \E i \in 1..Len(tr.call.parts) :
          /\ tr.call.status[i] = "queued"
          /\ \A j \in 1..(i - 1) : tr.call.status[j] # "queued"
          /\ Cardinality(Running) < PoolSize(Len(tr.call.parts))
          /\ tr' = [tr EXCEPT !.call.status[i] = "running"]
    /\ UNCHANGED <<limiter, configured, rate, cacheVars, threads, llmVars, sessionVars>>

\* translator.translate of a chunk returns or raises: _do_translate, lines 71-74
WorkerDone ==
    /\ tr.call.pc = "fanout"
    /\ \E i \in Running, ok \in BOOLEAN :
          tr' = [tr EXCEPT !.call.status[i] = IF ok THEN "ok" ELSE "failed",
                           !.call.results[i] = FutureResult(ok, tr.call.parts[i])]
    /\ UNCHANGED <<limiter, configured, rate, cacheVars, threads, llmVars, sessionVars>>

\* translated_parts = [results[i] for i in range(len(parts))]
TranslatedParts(results) == [i \in 1..Len(results) |-> results[i].text]

\* the pool is done: lines 78-96
Combine ==
    /\ tr.call.pc = "fanout"
    /\ \A i \in 1..Len(tr.call.parts) : tr.call.status[i] \in {"ok", "failed"}
    /\ LET c == tr.call
           n == Len(c.parts)
           failed == {i \in 1..n : c.status[i] = "failed"}
           combined == Strip(Join(TranslatedParts(c.results), "\n\n"))
           stored == LruSet(cache, capacity, c.key, [text |-> combined, detected |-> c.detected])
       IN  IF \E i \in 1..n : c.results[i].exc
           THEN /\ tr' = [tr EXCEPT !.call = IdleTranslate, !.response = Refusal(502)]
                /\ UNCHANGED cache
           ELSE IF stored.exc
           THEN /\ tr' = [tr EXCEPT !.call = IdleTranslate, !.response = Refusal(500)]
                /\ UNCHANGED cache
           ELSE /\ cache' = stored.items
                /\ tr' = [tr EXCEPT !.call = IdleTranslate,
                            !.response = TranslateResponse(200, combined, FALSE, n, failed,
                                                           c.parts)]
    /\ UNCHANGED <<limiter, configured, rate, capacity, recency, cacheOp, lastSet, threads,
                   llmVars, sessionVars>>

(***************************************************************************)
(* views/test_api.py: test sessions.  Answers, indexes and ids are kept as *)
(* the JSON texts of the request bodies.                                   *)
(***************************************************************************)
\* the values uuid.uuid4() gives
TestIds == {"t1"}

\* test_id of a request: the id of a session, or one that start_test never gave
TestIdsSent == TestIds \cup {"t0"}

\* questionIds of a start_test body
QuestionLists == {<<>>, <<"q-mcq-1", "q-w-1">>}

\* questionId of a save_answer body ("": none)
QuestionIdsSent == {"", "q-mcq-1", "q-mcq-2", "q-w-1"}

\* answer of a save_answer body ("null": none)
AnswerTexts == {"null", "1", "0", "\"Axis\"", "\"rotate\""}

\* passThreshold of a body (0: none)
ThresholdsSent == {0, 90}

DefaultPassThreshold == 60

\* the clock runs from 1 to MaxTime
MaxTime == 3

\* what a request can be besides well-formed: a wrong method, a body that is no JSON
RequestShapes == {"ok", "method", "body"}

\* _json_error(message, status)
JsonError(view, id, status, message) ==
    [view |-> view, id |-> id, status |-> status, error |-> message]

\* the session start_test stores
NewSession(qids, threshold, t) ==
    [ questionIds |-> qids, answers |-> <<>>, startedAt |-> t, submitted |-> FALSE,
      passThreshold |-> threshold, graded |-> <<>>, submittedAt |-> 0 ]

\* d.get(key), None as "null"
GetOrNull(d, key) == IF key \in DOMAIN d THEN d[key] ELSE "null"

\* qid in questionIds
InList(qid, qids) == \E i \in 1..Len(qids) : qids[i] = qid

\* not value, for the JSON text of a value
Falsy(text) == text \in {"null", "0", "\"\"", "false"}

\* str(value), for the JSON text of a value
StrOf(text) ==
    IF StartsWith(text, "\"") THEN SubSeq(text, 2, Len(text) - 1) ELSE text

\* llm_score of _grade_written
WrittenScore(lowered) ==
    IF Contains(lowered, "axis") THEN 95
    ELSE IF Contains(lowered, "rotation") \/ Contains(lowered, "rotate") THEN 80
    ELSE 40

\* _grade_written: score10 and is_pass
GradeWritten(answerText, threshold) ==
    LET isPass == WrittenScore(Lower(answerText)) >= threshold
    IN  [score10 |-> IF isPass THEN 10 ELSE 0, isCorrect |-> isPass]

\* _grade_mcq: score10 and is_correct
GradeMcq(selected, correct) ==
    IF selected = "null" \/ correct = "null"
    THEN [score10 |-> 0, isCorrect |-> FALSE]
    ELSE [score10 |-> IF selected = correct THEN 10 ELSE 0, isCorrect |-> selected = correct]

\* the row submit_test grades for qid when _GRADE_CACHE has none
FreshRow(session, qid, threshold) ==
    LET raw == GetOrNull(session.answers, qid)
        known == qid \in DOMAIN session.graded
        qtype == IF known THEN session.graded[qid].type
                 ELSE IF StartsWith(qid, "q-mcq-") THEN "mcq" ELSE "written"
        correctIndex == IF known \/ qtype /= "mcq" THEN "null"
                        ELSE IF qid = "q-mcq-1" THEN "1" ELSE "0"
        correctText == IF known THEN session.graded[qid].correctAnswer ELSE "null"
        answerText == IF Falsy(raw) THEN "\"\"" ELSE raw
        mcq == GradeMcq(IF IsNumber(raw) THEN raw ELSE "null",
                        IF IsNumber(correctIndex) THEN correctIndex ELSE "0")
        written == GradeWritten(StrOf(answerText), threshold)
    IN  IF qtype = "mcq"
        THEN [ questionId |-> qid, type |-> "mcq", yourAnswer |-> raw,
               correctAnswer |-> correctIndex,
               score10 |-> mcq.score10, isCorrect |-> mcq.isCorrect ]
        ELSE [ questionId |-> qid, type |-> "written", yourAnswer |-> answerText,
               correctAnswer |-> IF Falsy(correctText)
                                 THEN "\"Rotation on axis causes day and night.\""
                                 ELSE correctText,
               score10 |-> written.score10, isCorrect |-> written.isCorrect ]

\* the row submit_test stores for qid: the cached one, or a fresh one
GradedRow(id, session, qid, threshold) ==
    IF <<id, qid, GetOrNull(session.answers, qid)>> \in DOMAIN gradeCache
    THEN gradeCache[<<id, qid, GetOrNull(session.answers, qid)>>]
    ELSE FreshRow(session, qid, threshold)

\* the questions of qids whose row in rows scores 10
NumCorrect(qids, rows) == Cardinality({i \in 1..Len(qids) : rows[qids[i]].score10 = 10})

\* round((correct / total) * 100) if total else 0
Percent(correct, total) ==
    IF total = 0 THEN 0
    ELSE LET q == (100 * correct) \div total
             r == (100 * correct) % total
         IN  IF 2 * r < total THEN q
             ELSE IF 2 * r > total THEN q + 1
             ELSE IF q % 2 = 0 THEN q ELSE q + 1

\* int(data.get("passThreshold") or session.get("passThreshold") or 60)
SubmitThreshold(sent, session) ==
    IF sent /= 0 THEN sent
    ELSE IF session.passThreshold /= 0 THEN session.passThreshold
    ELSE DefaultPassThreshold

\* the row summary shows for a question that has no graded row
UngradedRow(session, qid) ==
    [ questionId |-> qid,
      type |-> IF StartsWith(qid, "q-mcq-") THEN "mcq" ELSE "written",
      yourAnswer |-> GetOrNull(session.answers, qid),
      correctAnswer |-> "null", score10 |-> 0, isCorrect |-> FALSE ]

\* summary takes no graded row
SummaryRowsUngraded(session) ==
    [qid \in {session.questionIds[i] : i \in 1..Len(session.questionIds)} |->
        UngradedRow(session, qid)]

\* rows of summary, by question id
SummaryRows(session) ==
    [qid \in {session.questionIds[i] : i \in 1..Len(session.questionIds)} |->
        IF qid \in DOMAIN session.graded
        THEN session.graded[qid] ELSE UngradedRow(session, qid)]

\* the module after import: no session, nothing graded
NoResponse == [view |-> "", id |-> "", status |-> 0]

NoSessions ==
    /\ sessions = <<>> /\ gradeCache = <<>> /\ now = 1 /\ response = NoResponse
    /\ returned = <<>>

\* POST start_test
StartTest ==
    /\ \E shape \in RequestShapes, chapter \in BOOLEAN, qids \in QuestionLists,
          threshold \in ThresholdsSent :
          CASE shape = "method" ->
                 /\ response' = JsonError("start_test", "", 405, "Method not allowed")
                 /\ UNCHANGED sessions
            [] shape = "body" ->
                 /\ response' = JsonError("start_test", "", 500, "exception")
                 /\ UNCHANGED sessions
            [] shape = "ok" /\ (~chapter \/ qids = <<>>) ->
                 /\ response' = JsonError("start_test", "", 400,
                                          "chapterId and non-empty questionIds are required")
                 /\ UNCHANGED sessions
            [] OTHER ->
                 \E id \in TestIds \ DOMAIN sessions :
                    /\ sessions' = (id :> NewSession(qids,
                                       IF threshold /= 0 THEN threshold
                                       ELSE DefaultPassThreshold, now)) @@ sessions
                    /\ response' = [view |-> "start_test", id |-> id, status |-> 200]
    /\ UNCHANGED <<gradeCache, now, returned, llmVars, cacheVars, callVars>>

\* only an unknown test is refused
SaveRefusedUnknownOnly(id) == id \notin DOMAIN sessions

\* not session or session.get("submitted")
SaveRefused(id) == id \notin DOMAIN sessions \/ sessions[id].submitted

\* POST save_answer for test id
SaveAnswer ==
    /\ \E id \in TestIdsSent, shape \in RequestShapes, qid \in QuestionIdsSent,
          text \in AnswerTexts :
          IF shape = "method"
          THEN /\ response' = JsonError("save_answer", id, 405, "Method not allowed")
               /\ UNCHANGED sessions
          ELSE IF SaveRefused(id)
          THEN /\ response' = JsonError("save_answer", id, 404,
                                        "Test not found or already submitted")
               /\ UNCHANGED sessions
          ELSE IF shape = "body"
          THEN /\ response' = JsonError("save_answer", id, 500, "exception")
               /\ UNCHANGED sessions
          ELSE IF qid = ""
          THEN /\ response' = JsonError("save_answer", id, 400, "questionId is required")
               /\ UNCHANGED sessions
          ELSE IF ~InList(qid, sessions[id].questionIds)
          THEN /\ response' = JsonError("save_answer", id, 400, "questionId not in this test")
               /\ UNCHANGED sessions
          ELSE /\ sessions' = [sessions EXCEPT ![id].answers = (qid :> text) @@ @]
               /\ response' = [view |-> "save_answer", id |-> id, status |-> 200,
                               saved |-> TRUE]
    /\ UNCHANGED <<gradeCache, now, returned, llmVars, cacheVars, callVars>>

\* POST submit_test for test id
SubmitTest ==
    /\ \E id \in TestIdsSent, shape \in RequestShapes, sent \in ThresholdsSent :
          IF shape = "method"
          THEN /\ response' = JsonError("submit_test", id, 405, "Method not allowed")
               /\ UNCHANGED <<sessions, gradeCache, returned>>
          ELSE IF id \notin DOMAIN sessions
          THEN /\ response' = JsonError("submit_test", id, 404, "Test not found")
               /\ UNCHANGED <<sessions, gradeCache, returned>>
          ELSE IF shape = "body"
          THEN /\ response' = JsonError("submit_test", id, 500, "exception")
               /\ UNCHANGED <<sessions, gradeCache, returned>>
          ELSE LET session == sessions[id]
                   qids == session.questionIds
                   asked == {qids[i] : i \in 1..Len(qids)}
                   threshold == SubmitThreshold(sent, session)
                   rows == [qid \in asked |-> GradedRow(id, session, qid, threshold)]
                   keys == {<<id, qid, GetOrNull(session.answers, qid)>> : qid \in asked}
               IN  /\ gradeCache' = [k \in DOMAIN gradeCache \cup keys |->
                                        IF k \in DOMAIN gradeCache THEN gradeCache[k]
                                        ELSE rows[k[2]]]
                   /\ sessions' = [sessions EXCEPT
                                     ![id].graded = rows @@ @,
                                     ![id].submitted = TRUE,
                                     ![id].submittedAt = now]
                   /\ response' = [view |-> "submit_test", id |-> id, status |-> 200,
                                   overallPercent |-> Percent(NumCorrect(qids, rows), Len(qids)),
                                   correct |-> NumCorrect(qids, rows),
                                   total |-> Len(qids)]
                   /\ returned' = (id :> response') @@ returned
    /\ UNCHANGED <<now, llmVars, cacheVars, callVars>>

\* GET summary for test id
Summary ==
    /\ \E id \in TestIdsSent, shape \in {"ok", "method"} :
          IF shape = "method"
          THEN response' = JsonError("summary", id, 405, "Method not allowed")
          ELSE IF id \notin DOMAIN sessions
          THEN response' = JsonError("summary", id, 404, "Test not found")
          ELSE LET session == sessions[id]
                   qids == session.questionIds
                   rows == SummaryRows(session)
                   submittedAt == IF session.submittedAt /= 0 THEN session.submittedAt ELSE now
                   spent == submittedAt - session.startedAt
               IN  response' = [view |-> "summary", id |-> id, status |-> 200,
                                overallPercent |-> Percent(NumCorrect(qids, rows), Len(qids)),
                                correctCount |-> NumCorrect(qids, rows),
                                total |-> Len(qids),
                                timeSpentSec |-> IF spent > 0 THEN spent ELSE 0,
                                rows |-> [i \in 1..Len(qids) |-> rows[qids[i]]]]
    /\ UNCHANGED <<sessions, gradeCache, now, returned, llmVars, cacheVars, callVars>>

\* a second passes
Tick ==
    /\ now < MaxTime
    /\ now' = now + 1
    /\ UNCHANGED <<sessions, gradeCache, response, returned, llmVars, cacheVars, callVars>>

(***************************************************************************)
(* The test views called by request threads.  _TEST_SESSIONS and           *)
(* _GRADE_CACHE are module dictionaries that the views read and write      *)
(* without a lock; a thread can be switched between any two statements.    *)
(***************************************************************************)
\* answer of the save_answer bodies that request threads send
AnswersSent == {"1", "0"}

\* thread t is in a view for test id, at label
InView(t, label, id, qid, value, idx, threshold, correct) ==
    threads' = [threads EXCEPT ![t] =
                   [pc |-> label, id |-> id, qid |-> qid, value |-> value, idx |-> idx,
                    threshold |-> threshold, correct |-> correct,
                    raised |-> FALSE, result |-> None]]

\* thread t leaves its view with a response
Responds(t, out) ==
    /\ threads' = [threads EXCEPT ![t] = IdleThread]
    /\ response' = out

\* save_answer, lines 68-81: the session is looked up and the body is read
SaveEnter ==
    /\ \E t \in ThreadIds, id \in TestIdsSent, shape \in RequestShapes,
          qid \in QuestionIdsSent, text \in AnswersSent :
          /\ threads[t].pc = "idle"
          /\ IF shape = "method"
             THEN Responds(t, JsonError("save_answer", id, 405, "Method not allowed"))
             ELSE IF SaveRefused(id)
             THEN Responds(t, JsonError("save_answer", id, 404,
                                             "Test not found or already submitted"))
             ELSE IF shape = "body"
             THEN Responds(t, JsonError("save_answer", id, 500, "exception"))
             ELSE IF qid = ""
             THEN Responds(t, JsonError("save_answer", id, 400, "questionId is required"))
             ELSE IF ~InList(qid, sessions[id].questionIds)
             THEN Responds(t, JsonError("save_answer", id, 400,
                                             "questionId not in this test"))
             ELSE InView(t, "save_write", id, qid, text, 0, 0, 0) /\ UNCHANGED response
    /\ UNCHANGED <<sessions, gradeCache, now, returned, llmVars, cacheVars, viewVars>>

\* save_answer, lines 82-84: session["answers"][qid] = answer
SaveWrite ==
    /\ \E t \in ThreadIds :
          /\ threads[t].pc = "save_write"
          /\ sessions' = [sessions EXCEPT ![threads[t].id].answers =
                                            (threads[t].qid :> threads[t].value) @@ @]
          /\ Responds(t, [view |-> "save_answer", id |-> threads[t].id,
                          status |-> 200, saved |-> TRUE])
    /\ UNCHANGED <<gradeCache, now, returned, llmVars, cacheVars, viewVars>>

\* where submit_test goes on in its loop over questionIds
SubmitAt(idx, qids) == IF idx <= Len(qids) THEN "submit_read" ELSE "submit_end"

\* submit_test, lines 116-129: the session is looked up and the threshold is read
SubmitEnter ==
    /\ \E t \in ThreadIds, id \in TestIdsSent, shape \in RequestShapes,
          sent \in ThresholdsSent :
          /\ threads[t].pc = "idle"
          /\ IF shape = "method"
             THEN Responds(t, JsonError("submit_test", id, 405, "Method not allowed"))
             ELSE IF id \notin DOMAIN sessions
             THEN Responds(t, JsonError("submit_test", id, 404, "Test not found"))
             ELSE IF shape = "body"
             THEN Responds(t, JsonError("submit_test", id, 500, "exception"))
             ELSE InView(t, SubmitAt(1, sessions[id].questionIds), id, "", "null", 1,
                         SubmitThreshold(sent, sessions[id]), 0) /\ UNCHANGED response
    /\ UNCHANGED <<sessions, gradeCache, now, returned, llmVars, cacheVars, viewVars>>

\* submit_test, lines 130-131: raw_answer = session["answers"].get(qid)
SubmitRead ==
    /\ \E t \in ThreadIds :
          /\ threads[t].pc = "submit_read"
          /\ LET session == sessions[threads[t].id]
                 qid == session.questionIds[threads[t].idx]
             IN  threads' = [threads EXCEPT ![t].pc = "submit_grade", ![t].qid = qid,
                                            ![t].value = GetOrNull(session.answers, qid)]
    /\ UNCHANGED <<sessionVars, llmVars, cacheVars, viewVars>>

\* submit_test, lines 132-187: the row of raw_answer is graded or taken from
\* _GRADE_CACHE, and stored in session["graded"]
SubmitGrade ==
    /\ \E t \in ThreadIds :
          /\ threads[t].pc = "submit_grade"
          /\ LET id == threads[t].id
                 qid == threads[t].qid
                 read == [sessions[id] EXCEPT !.answers = (qid :> threads[t].value) @@ @]
                 row == GradedRow(id, read, qid, threads[t].threshold)
                 key == <<id, qid, threads[t].value>>
             IN  /\ gradeCache' = IF key \in DOMAIN gradeCache THEN gradeCache
                                  ELSE (key :> row) @@ gradeCache
                 /\ sessions' = [sessions EXCEPT ![id].graded = (qid :> row) @@ @]
                 /\ threads' = [threads EXCEPT
                       ![t].pc = SubmitAt(threads[t].idx + 1, sessions[id].questionIds),
                       ![t].idx = @ + 1,
                       ![t].correct = IF row.score10 = 10 THEN @ + 1 ELSE @]
    /\ UNCHANGED <<now, response, returned, llmVars, cacheVars, viewVars>>

\* submit_test, lines 189-196: the session is marked submitted and the score returned
SubmitEnd ==
    /\ \E t \in ThreadIds :
          /\ threads[t].pc = "submit_end"
          /\ LET id == threads[t].id
                 total == Len(sessions[id].questionIds)
                 out == [view |-> "submit_test", id |-> id, status |-> 200,
                         overallPercent |-> Percent(threads[t].correct, total),
                         correct |-> threads[t].correct, total |-> total]
             IN  /\ sessions' = [sessions EXCEPT ![id].submitted = TRUE,
                                                 ![id].submittedAt = now]
                 /\ returned' = (id :> out) @@ returned
                 /\ Responds(t, out)
    /\ UNCHANGED <<gradeCache, now, llmVars, cacheVars, viewVars>>

(***************************************************************************)
(* Requests                                                                *)
(***************************************************************************)
\* search, create, invoke: invocations of similarity_search, chat.completions.create and
\* llm_detailed.invoke; retrieved: the number of chunks each retrieve_textbook_chunks call
\* returned; chat, generated: how the last _openai_chat call ended and the text it returned
NoTrace ==
    [search |-> 0, raised |-> FALSE, create |-> 0, invoke |-> 0, raw |-> None,
     retrieved |-> <<>>,
     chat |-> "none",
     generated |-> ""]

NoRequest == [entry |-> "", message |-> "", level |-> ""]

NoReturn == [exc |-> FALSE, val |-> ""]

\* providers that may reply differently each time
FreeProviders == [deterministic |-> FALSE, replies |-> <<>>]

NoFirst == [req |-> NoRequest, ret |-> NoReturn]

\* LLMService after __init__, no request in flight
LlmInit ==
    /\ pc = "idle" /\ stack = <<>> /\ req = NoRequest /\ ret = NoReturn
    /\ storeAvailable \in BOOLEAN
    /\ argK = 0 /\ chunks = <<>> /\ viewChunks = <<>> /\ answer = "" /\ context = ""
    /\ chatModel = "" /\ mIdx = 0 /\ attempt = 0 /\ msg = "" /\ log = <<>>
    /\ trace = NoTrace
    /\ providers = FreeProviders /\ first = NoFirst

Init == LlmInit /\ NoCache /\ NoSessions /\ NoCalls

\* a request enters a view or a method of the service
Start ==
    /\ pc = "idle"
    /\ \E entry \in ServiceEntries, message \in Messages, level \in Levels :
          \* generate_textbook_answer takes no level
          /\ entry = "generate_textbook_answer" => level = "textbook"
          /\ pc' = entry
          /\ req' = [entry |-> entry, message |-> message, level |-> level]
    /\ UNCHANGED <<stack, ret, storeAvailable, argK, chunks, viewChunks, answer, context,
                   chatModel, mIdx, attempt, msg, log, trace>>
    /\ UNCHANGED restVars

\* a POST view gets a body that is no JSON: json.JSONDecodeError
StartMalformed ==
    /\ pc = "idle"
    /\ \E entry \in PostViews :
          /\ req' = [entry |-> entry, message |-> "", level |-> ""]
          /\ pc' = "done"
          /\ ret' = [exc |-> FALSE,
                     val |-> IF entry = "chat_view"
                             THEN ErrorResponse(200, "Invalid JSON data.")
                             ELSE ErrorResponse(400, "Invalid JSON in request body")]
    /\ UNCHANGED <<stack, storeAvailable, argK, chunks, viewChunks, answer, context,
                   chatModel, mIdx, attempt, msg, log, trace>>
    /\ UNCHANGED restVars

\* _openai_chat called on its own
StartChat ==
    /\ pc = "idle"
    /\ \E model \in ChatModels :
          /\ req' = [entry |-> "_openai_chat", message |-> "", level |-> ""]
          /\ pc' = "chat"
          /\ chatModel' = model /\ mIdx' = 1 /\ attempt' = 0 /\ msg' = "" /\ log' = <<>>
    /\ UNCHANGED <<stack, ret, storeAvailable, argK, chunks, viewChunks, answer, context, trace>>
    /\ UNCHANGED restVars

\* generate_suggested_questions called on its own
StartSuggest ==
    /\ pc = "idle"
    /\ \E text \in SuggestContexts :
          /\ req' = [entry |-> "generate_suggested_questions", message |-> text, level |-> ""]
          /\ pc' = "gsq"
          /\ context' = text
    /\ UNCHANGED <<stack, ret, storeAvailable, argK, chunks, viewChunks, answer,
                   chatModel, mIdx, attempt, msg, log, trace>>
    /\ UNCHANGED restVars

\* the response is out; the service keeps nothing of the request
Finish ==
    /\ pc = "done"
    /\ pc' = "idle" /\ req' = NoRequest /\ ret' = NoReturn /\ trace' = NoTrace
    /\ DropChat
    /\ UNCHANGED <<stack, storeAvailable, argK, chunks, viewChunks, answer, context>>
    /\ UNCHANGED restVars

Next ==
    \/ Start \/ StartMalformed \/ StartChat \/ StartSuggest \/ Finish
    \/ ChatCreate \/ ChatResend
    \/ RetrieveTextbookChunks \/ GenerateSuggestedQuestions
    \/ GenerateTextbookAnswer \/ TextbookChunks \/ TextbookChat \/ TextbookQuestions
    \/ GenerateDetailedAnswer \/ DetailedChunks \/ DetailedChat
    \/ GenerateAdvancedAnswer \/ AdvancedChunks \/ AdvancedChat
    \/ GenerateAnswer \/ AnswerResult
    \/ GetChatResponse \/ ChatResponseTextbook \/ ChatResponseAnswer \/ ChatResponseQuestions
    \/ GetAnswer \/ GetAnswerChunks \/ GetAnswerAnswer \/ GetAnswerQuestions
    \/ GetAnswerPost \/ PostResponse \/ PostChunks
    \/ ChatView \/ ChatViewResponse

Spec == Init /\ [][Next]_vars

\* the entries that answer a question in a mode
AnswerEntries == {"get_chat_response", "generate_textbook_answer"}

\* providers that reply to an input what they replied to it before
DeterministicProviders == [deterministic |-> TRUE, replies |-> <<>>]

\* the first of two identical requests enters the service
FirstRequest ==
    /\ pc = "idle"
    /\ \E entry \in AnswerEntries, message \in Messages, level \in Levels :
          /\ entry = "generate_textbook_answer" => level = "textbook"
          /\ pc' = entry
          /\ req' = [entry |-> entry, message |-> message, level |-> level]
    /\ UNCHANGED <<stack, ret, storeAvailable, argK, chunks, viewChunks, answer, context,
                   chatModel, mIdx, attempt, msg, log, trace>>
    /\ UNCHANGED restVars

\* the first response is out, and the same question in the same mode enters again
SecondRequest ==
    /\ pc = "done" /\ first = NoFirst
    /\ first' = [req |-> req, ret |-> ret]
    /\ pc' = req.entry /\ ret' = NoReturn /\ trace' = NoTrace
    /\ DropChat
    /\ UNCHANGED <<stack, req, storeAvailable, argK, chunks, viewChunks, answer, context>>
    /\ UNCHANGED <<otherVars, providers>>

\* a question asked twice in the same mode of a service whose providers are deterministic
IdemInit ==
    /\ pc = "idle" /\ stack = <<>> /\ req = NoRequest /\ ret = NoReturn
    /\ storeAvailable \in BOOLEAN
    /\ argK = 0 /\ chunks = <<>> /\ viewChunks = <<>> /\ answer = "" /\ context = ""
    /\ chatModel = "" /\ mIdx = 0 /\ attempt = 0 /\ msg = "" /\ log = <<>>
    /\ trace = NoTrace
    /\ providers = DeterministicProviders /\ first = NoFirst
    /\ NoCache /\ NoSessions /\ NoCalls

IdemNext ==
    \/ FirstRequest \/ SecondRequest
    \/ ChatCreate \/ ChatResend
    \/ RetrieveTextbookChunks \/ GenerateSuggestedQuestions
    \/ GenerateTextbookAnswer \/ TextbookChunks \/ TextbookChat \/ TextbookQuestions
    \/ GenerateDetailedAnswer \/ DetailedChunks \/ DetailedChat
    \/ GenerateAdvancedAnswer \/ AdvancedChunks \/ AdvancedChat
    \/ GenerateAnswer \/ AnswerResult
    \/ GetChatResponse \/ ChatResponseTextbook \/ ChatResponseAnswer \/ ChatResponseQuestions

IdemSpec == IdemInit /\ [][IdemNext]_vars

\* _openai_chat called on its own; every call of the provider returns or raises in the
\* end (the method is one synchronous call stack and the client times a request out)
ChatNext == StartChat \/ ChatCreate \/ ChatResend \/ Finish

ChatSpec ==
    /\ Init /\ [][ChatNext]_vars
    /\ WF_vars(ChatCreate) /\ WF_vars(ChatResend)

\* a cache of some capacity, empty, and get and set calls on it
CacheInit ==
    /\ LlmInit /\ storeAvailable /\ NoSessions /\ NoCalls
    /\ cache = <<>> /\ capacity \in 0..MaxCapacity
    /\ recency = <<>> /\ cacheOp = NoCacheOp /\ lastSet = <<>>

CacheNext == CacheGet \/ CacheSet

CacheSpec == CacheInit /\ [][CacheNext]_vars

\* request threads that call get and set on one cache of capacity 1..MaxCapacity
SharedCacheInit ==
    /\ LlmInit /\ storeAvailable /\ NoSessions /\ NoCalls
    /\ cache = <<>> /\ capacity \in 1..MaxCapacity
    /\ recency = <<>> /\ cacheOp = NoCacheOp /\ lastSet = <<>>

SharedCacheNext ==
    \/ ThreadGet \/ ThreadGetPop \/ ThreadGetSet
    \/ ThreadSet \/ ThreadSetPop \/ ThreadSetLen \/ ThreadSetEvict \/ ThreadSetItem

SharedCacheSpec == SharedCacheInit /\ [][SharedCacheNext]_vars

\* translate_view, one request at a time, with a provider that is or is not configured
TranslateInit ==
    /\ LlmInit /\ storeAvailable /\ NoCache /\ NoSessions /\ NoThreads
    /\ tr = [call |-> IdleTranslate, served |-> 0, response |-> NoTranslateResponse]
    /\ limiter = NewLimiter /\ configured \in BOOLEAN /\ rate = NoRate

TranslateNext == TranslateView \/ WorkerStart \/ WorkerDone \/ Combine

TranslateSpec == TranslateInit /\ [][TranslateNext]_vars

\* allow() called at any times of a clock that runs on
RateInit ==
    /\ LlmInit /\ storeAvailable /\ NoCache /\ NoCalls
    /\ sessions = <<>> /\ gradeCache = <<>> /\ response = NoResponse /\ returned = <<>>
    /\ now = WindowSeconds

RateNext == AllowCall \/ ClockAdvance

RateSpec == RateInit /\ [][RateNext]_vars

\* the test views, called one at a time
SessionInit == LlmInit /\ storeAvailable /\ NoCache /\ NoSessions /\ NoCalls

SessionNext == StartTest \/ SaveAnswer \/ SubmitTest \/ Summary \/ Tick

SessionSpec == SessionInit /\ [][SessionNext]_vars

\* a test that start_test has just stored, and request threads that call save_answer and
\* submit_test
SharedSessionInit ==
    /\ LlmInit /\ storeAvailable /\ NoCache /\ NoCalls
    /\ \E id \in TestIds, qids \in QuestionLists \ {<<>>} :
          /\ sessions = (id :> NewSession(qids, DefaultPassThreshold, 1))
          /\ response = [view |-> "start_test", id |-> id, status |-> 200]
    /\ gradeCache = <<>> /\ now = 1 /\ returned = <<>>

SharedSessionNext ==
    \/ SaveEnter \/ SaveWrite
    \/ SubmitEnter \/ SubmitRead \/ SubmitGrade \/ SubmitEnd

SharedSessionSpec == SharedSessionInit /\ [][SharedSessionNext]_vars

(***************************************************************************)
(* Properties                                                              *)
(***************************************************************************)
\* the _openai_chat call has ended and its invocations are still on record
ChatEnded == log /= <<>> /\ pc \notin {"chat", "chat_resend"}

\* the request is a textbook-mode call of generate_textbook_answer or get_chat_response
TextbookCall ==
    \/ req.entry = "generate_textbook_answer"
    \/ req.entry = "get_chat_response" /\ req.level = "textbook"

\* C1: in textbook mode, once retrieval has produced zero passages the Generation
\* Provider is never invoked (chat.completions.create and llm_detailed.invoke both stay
\* at zero calls) and the call returns success = false.
C1_NoPassagesNoGeneration ==
    (TextbookCall /\ trace.retrieved = <<0>>)
        => /\ trace.create = 0 /\ trace.invoke = 0
           /\ pc = "done" => (~ret.exc /\ ret.val.success = FALSE)

\* C1 witness: a textbook get_chat_response has ended after a search that gave no
\* textbook chunk.
C1_Witness ==
    /\ pc = "done" /\ req.entry = "get_chat_response" /\ req.level = "textbook"
    /\ trace.retrieved = <<0>> /\ trace.search = 1 /\ ~ret.exc

\* the four hedging phrases, as the claim lists them
C2_Phrases ==
    {"i don't have information", "not in the textbook", "cannot be answered",
     "insufficient information"}

C2_ContainsPhrase(text) == \E phrase \in C2_Phrases : Contains(Lower(text), phrase)

C2_HedgeNotes == "Insufficient textbook chunks found to confidently answer."

\* C2: in textbook mode with at least one passage and a generation call that succeeded,
\* the result is the hedge failure (success = false) exactly when the generated text
\* holds one of the four phrases in any letter case; otherwise it is success = true with
\* the generated text as the answer.
C2_HedgeExactlyOnPhrase ==
    (pc = "done" /\ TextbookCall /\ trace.retrieved /= <<0>> /\ trace.chat = "ok" /\ ~ret.exc)
        => IF C2_ContainsPhrase(trace.generated)
           THEN /\ ret.val.success = FALSE
                /\ Get(ret.val, "mode_notes", None) = C2_HedgeNotes
           ELSE /\ ret.val.success = TRUE
                /\ ret.val.answer = trace.generated

\* C2 witness: a generated text with the phrase in mixed case was turned into the hedge
\* failure.
C2_Witness ==
    /\ pc = "done" /\ TextbookCall /\ trace.chat = "ok" /\ ~ret.exc
    /\ trace.generated = "There is Insufficient Information in the textbook context."
    /\ ret.val.success = FALSE

\* the transient codes, as the claim lists them
C3_Codes == {"429", "500", "502", "503", "504"}

\* a failed invocation with a transient signal; the failure of a re-send, whose error the
\* log does not keep, stands for every failure, the transient ones among them
C3_TransientFailure(e) ==
    \/ e.api = "resend" /\ e.res = "error"
    \/ e.api = "create" /\ e.res /= "ok" /\ \E code \in C3_Codes : Contains(e.res, code)

\* C3: when the first two provider invocations of an _openai_chat call fail with a
\* transient signal, a third invocation is made, on the configured model like the first
\* two; and when that third invocation succeeds the call returns its text, with exactly
\* 3 invocations made.
C3_TwoTransientThenSuccess ==
    (ChatEnded /\ Len(log) >= 2 /\ C3_TransientFailure(log[1]) /\ C3_TransientFailure(log[2]))
        => /\ Len(log) >= 3
           /\ \A i \in 1..3 : log[i].model = chatModel
           /\ log[3].res = "ok" => (~ret.exc /\ Len(log) = 3)

\* C3 witness: two rate-limit failures, then a success, on one model.
C3_Witness ==
    /\ ChatEnded /\ Len(log) = 3 /\ ~ret.exc
    /\ log[1].res = ErrRateLimit /\ log[2].res = ErrRateLimit /\ log[3].res = "ok"

\* the number of invocations of model m on record
RECURSIVE CountModel(_, _)
CountModel(l, m) ==
    IF l = <<>> THEN 0
    ELSE (IF Head(l).model = m THEN 1 ELSE 0) + CountModel(Tail(l), m)

\* the provider failed every gpt-4o invocation of the call and served every gpt-4o-mini one
C4_TopTierDownFallbackUp ==
    /\ ChatEnded /\ chatModel = "gpt-4o"
    /\ \A i \in 1..Len(log) : (log[i].res = "ok") <=> (log[i].model = "gpt-4o-mini")

\* C4 as stated: with the top-tier model always failing, whatever the failure, and the
\* fallback model succeeding, the call succeeds with exactly one invocation of each model.
C4_OneInvocationEach ==
    C4_TopTierDownFallbackUp
        => /\ ~ret.exc
           /\ CountModel(log, "gpt-4o") = 1 /\ CountModel(log, "gpt-4o-mini") = 1

\* C4 amended: with the top-tier model always failing and the fallback model succeeding,
\* the call succeeds with exactly one invocation of the fallback model, the last one of
\* the call; the top-tier model is invoked exactly once when its failure is neither
\* transient nor an unsupported-parameter error, and otherwise 2 to 6 times (up to 3
\* attempts, each with at most one re-send).
C4_FallbackAfterTopTierAttempts ==
    C4_TopTierDownFallbackUp
        => /\ ~ret.exc
           /\ CountModel(log, "gpt-4o-mini") = 1 /\ log[Len(log)].model = "gpt-4o-mini"
           /\ CountModel(log, "gpt-4o") >= 1 /\ CountModel(log, "gpt-4o") <= 6
           /\ Len(SelectSeq(log, LAMBDA e : e.model = "gpt-4o" /\ e.api = "create")) <= 3
           /\ (CountModel(log, "gpt-4o") = 1) <=>
                 ~(\/ \E code \in C3_Codes : Contains(log[1].res, code)
                   \/ /\ Contains(log[1].res, "Unsupported parameter")
                      /\ Contains(log[1].res, "max_"))

\* C4 witness: one fatal failure on gpt-4o, then the answer of gpt-4o-mini.
C4_Witness ==
    /\ ChatEnded /\ chatModel = "gpt-4o" /\ ~ret.exc /\ Len(log) = 2
    /\ log[1].model = "gpt-4o" /\ log[1].res = ErrAuth
    /\ log[2].model = "gpt-4o-mini" /\ log[2].res = "ok"

\* an attempt that failed with a non-transient error
C5_NonTransientFailure(e) ==
    e.api = "create" /\ e.res /= "ok" /\ ~\E code \in C3_Codes : Contains(e.res, code)

\* C5 as stated: a non-transient failure of an attempt is the last provider invocation of
\* the call, whatever the model, and the call ends by raising.
C5_AbortsAtOnce ==
    \A i \in 1..Len(log) :
        C5_NonTransientFailure(log[i])
            => /\ i = Len(log)
               /\ ChatEnded => ret.exc

\* C5 amended: after a non-transient failure of an attempt no further attempt is made on
\* that model: the only invocation of the same model that may follow is the single
\* re-send of that attempt, and only for an unsupported-parameter error; every other
\* later invocation is on the fallback model gpt-4o-mini after a failure of gpt-4o; the
\* call raises when its last invocation failed.
C5_NoFurtherAttemptOnModel ==
    /\ \A i \in 1..Len(log) :
          C5_NonTransientFailure(log[i])
              => \A j \in (i + 1)..Len(log) :
                    IF log[j].model = log[i].model
                    THEN /\ j = i + 1 /\ log[j].api = "resend"
                         /\ Contains(log[i].res, "Unsupported parameter")
                    ELSE log[i].model = "gpt-4o" /\ log[j].model = "gpt-4o-mini"
    /\ (ChatEnded /\ log[Len(log)].res /= "ok") => ret.exc

\* C5 witness: a fatal error on the only model ends the call after one invocation.
C5_Witness ==
    /\ ChatEnded /\ chatModel = "gpt-4o-mini" /\ ret.exc
    /\ Len(log) = 1 /\ log[1].res = ErrAuth

\* a call of get_chat_response with one of the three modes has returned
ChatResponseReturned ==
    pc = "done" /\ req.entry = "get_chat_response" /\ req.level \in ValidLevels /\ ~ret.exc

\* C6: in every mode, when generation ends in failure after retries and fallback, the
\* result of get_chat_response has success=false and an explanation as its text, and
\* success=true is returned only when generation succeeded.
C6_FailureReported ==
    ChatResponseReturned
        => /\ trace.chat = "failed" => (~ret.val.success /\ ret.val.answer /= "")
           /\ ret.val.success => trace.chat = "ok"

\* C7: a call of generate_answer or get_chat_response, whatever the question, the mode
\* and the behaviour of the providers, ends by returning a value, never by raising.
C7_NoRawException ==
    (pc = "done" /\ req.entry \in {"generate_answer", "get_chat_response"}) => ~ret.exc

\* C7 witness: get_chat_response has returned although retrieval raised and generation
\* failed on every attempt.
C7_Witness ==
    /\ pc = "done" /\ req.entry = "get_chat_response" /\ ~ret.exc
    /\ trace.chat = "failed" /\ trace.search >= 1 /\ trace.retrieved = <<0>>

\* C8: for a source text of at least 30 characters and any reply of the secondary
\* generation call, generate_suggested_questions returns exactly 3 strings, each
\* non-empty and ending in '?'.
C8_ThreeQuestions ==
    (pc = "done" /\ req.entry = "generate_suggested_questions"
       /\ Len(req.message) >= MinContextLen)
        => /\ ~ret.exc
           /\ Len(ret.val) = NumQuestions
           /\ \A i \in 1..Len(ret.val) : ret.val[i] /= "" /\ EndsWith(ret.val[i], "?")

\* C9: in advanced mode, when retrieval returns no passage, the provider is still
\* invoked and the result has success=true and a non-empty answer.
C9_AdvancedNonEmpty ==
    (ChatResponseReturned /\ req.level = "advanced" /\ trace.retrieved = <<0>>)
        => /\ trace.create >= 1
           /\ ret.val.success
           /\ ret.val.answer /= ""

\* C10: a request whose mode is none of textbook, detailed, advanced is never reported
\* as success and invokes neither provider, on the answer views, chat_view and
\* get_chat_response.
C10_InvalidModeRejected ==
    (pc = "done" /\ req.entry \in {"get_answer", "get_answer_post", "chat_view", "get_chat_response"}
       /\ req.level \in Levels \ ValidLevels)
        => /\ ~ret.exc
           /\ ~ret.val.success
           /\ trace.search = 0 /\ trace.create = 0 /\ trace.invoke = 0

\* C11: a request whose question is missing or has fewer than 4 characters after
\* trimming is rejected without any retrieval or generation call, in get_answer,
\* get_answer_post, chat_view, generate_answer and get_chat_response.
C11_ShortQuestionRejected ==
    (/\ pc = "done"
     /\ req.entry \in {"get_answer", "get_answer_post", "chat_view",
                       "generate_answer", "get_chat_response"}
     /\ (req.message = "" \/ Len(Strip(req.message)) < 4))
        => /\ ~ret.exc
           /\ IF req.entry = "generate_answer"
              THEN ret.val = InvalidQuestionText
              ELSE ~ret.val.success
           /\ trace.search = 0 /\ trace.create = 0 /\ trace.invoke = 0

\* the key of items that was touched least recently, by the order of touches
LeastRecentlyTouched(items, touches) ==
    touches[CHOOSE i \in 1..Len(touches) :
               /\ touches[i] \in CacheKeys(items)
               /\ \A j \in 1..(i - 1) : touches[j] \notin CacheKeys(items)]

\* C12: after set(k, v), get(k) returns v, and keeps returning v across later get and
\* set calls until k is overwritten or evicted; a get of a key that is not present
\* returns None and changes nothing.
C12_RoundTrip ==
    /\ \A k \in DOMAIN lastSet : Has(cache, k) /\ Lookup(cache, k) = lastSet[k]
    /\ (cacheOp.op = "set" /\ ~cacheOp.exc)
          => Has(cache, cacheOp.key) /\ Lookup(cache, cacheOp.key) = cacheOp.value
    /\ cacheOp.op = "get"
          => /\ DOMAIN lastSet = CacheKeys(cacheOp.before)
             /\ IF Has(cacheOp.before, cacheOp.key)
                THEN cacheOp.result = lastSet[cacheOp.key]
                ELSE cacheOp.result = None /\ cache = cacheOp.before

\* C12 witness: a get returns the value set for its key two touches ago.
C12_Witness ==
    /\ cacheOp.op = "get" /\ Len(cacheOp.before) = 2
    /\ cacheOp.before[1][1] = cacheOp.key /\ cacheOp.result = cacheOp.before[1][2]

\* C13: with capacity >= 1 the cache never holds more than capacity entries; a set of
\* a new key on a full cache removes exactly the entry touched least recently, a get
\* hit and a set both counting as a touch; any other set removes nothing.
C13_BoundedLru ==
    capacity >= 1
        => /\ Len(cache) <= capacity
           /\ Cardinality(CacheKeys(cache)) = Len(cache)
           /\ cacheOp.op = "set"
                => LET had == CacheKeys(cacheOp.before)
                   IN  IF cacheOp.key \notin had /\ Len(cacheOp.before) >= capacity
                       THEN CacheKeys(cache) =
                              (had \ {LeastRecentlyTouched(cacheOp.before, cacheOp.touched)})
                                 \cup {cacheOp.key}
                       ELSE CacheKeys(cache) = had \cup {cacheOp.key}

\* C13 witness: a set of a new key on a full cache of capacity 2 evicts the entry that
\* was inserted last, the other one having been touched since.
C13_Witness ==
    /\ cacheOp.op = "set" /\ capacity = 2 /\ Len(cacheOp.before) = 2 /\ Len(cache) = 2
    /\ cacheOp.key \notin CacheKeys(cacheOp.before)
    /\ Len(cacheOp.touched) >= 3
    /\ cacheOp.touched[1] \in CacheKeys(cache)

\* C14: once a session is submitted, every later save_answer call for it is rejected
\* (404, or 405 when the request is no POST) and leaves its answers unchanged;
\* save_answer changes answers only while submitted is false.
C14_NoSaveAfterSubmit ==
    [][SaveAnswer =>
         \A id \in DOMAIN sessions :
            /\ (sessions[id].submitted /\ response'.id = id)
                  => response'.status \in {404, 405}
            /\ sessions'[id].answers /= sessions[id].answers
                  => ~sessions[id].submitted /\ response'.id = id]_vars

\* C14 witness: a save_answer for a submitted session that holds answers was refused.
C14_Witness ==
    /\ response.view = "save_answer" /\ response.status = 404
    /\ response.id \in DOMAIN sessions
    /\ sessions[response.id].submitted
    /\ DOMAIN sessions[response.id].answers /= {}

\* C15: after the first successful submit_test, no later save_answer, submit_test or
\* summary changes any field of the session.
C15_FinalizedOnce ==
    [][\A id \in DOMAIN sessions :
          sessions[id].submitted => sessions'[id] = sessions[id]]_vars

\* the answer text of a returned value, or the exception in its place
ReturnedText(r) == IF r.exc THEN "exception" ELSE r.val.answer

InChat == pc \in {"chat", "chat_resend"}

\* the invocations of kind api of model m on record
Invocations(api, m) == SelectSeq(log, LAMBDA e : e.model = m /\ e.api = api)

\* at most MaxAttempts attempts per model identifier, each with at most one re-send,
\* on the configured model and, for gpt-4o only, on gpt-4o-mini
C17_AttemptsBounded ==
    /\ \A m \in ChatModels :
          /\ Len(Invocations("create", m)) <= MaxAttempts
          /\ Len(Invocations("resend", m)) <= Len(Invocations("create", m))
    /\ \A i \in 1..Len(log) :
          \E k \in 1..Len(AttemptModels(chatModel)) : log[i].model = AttemptModels(chatModel)[k]
    /\ Len(SelectSeq(log, LAMBDA e : e.api = "create"))
          <= (IF chatModel = "gpt-4o" THEN 2 ELSE 1) * MaxAttempts

\* _openai_chat ends by returning the stripped text of the completion it got last, or by
\* raising after an invocation that failed
C17_EndsWithValueOrRaise ==
    (InChat /\ ~InChat')
        => /\ pc' = "done" /\ log' # <<>>
           /\ IF ret'.exc
              THEN log'[Len(log')].res # "ok" /\ trace'.chat = "failed"
              ELSE /\ log'[Len(log')].res = "ok" /\ trace'.chat = "ok"
                   /\ ret'.val = trace'.generated
                   /\ \E c \in ChatContents : ret'.val = Strip(c)

\* C17: _openai_chat terminates whatever the provider does; it makes at most 3 attempts
\* per model identifier (3 in all for a model other than gpt-4o, 6 for gpt-4o with its
\* fallback, each with at most one re-send without max_tokens); it ends by returning
\* the generated text or by raising, never without a value
C17_ChatTerminates ==
    /\ InChat ~> ~InChat
    /\ []C17_AttemptsBounded
    /\ [][C17_EndsWithValueOrRaise]_vars

\* _openai_chat has raised after 3 attempts on gpt-4o and 3 on gpt-4o-mini, one of them
\* with a re-send
C17_Witness ==
    /\ pc = "done" /\ req.entry = "_openai_chat" /\ chatModel = "gpt-4o" /\ ret.exc
    /\ Len(Invocations("create", "gpt-4o")) = MaxAttempts
    /\ Len(Invocations("create", "gpt-4o-mini")) = MaxAttempts
    /\ Len(Invocations("resend", "gpt-4o-mini")) = 1
\* the attempts on gpt-4o on record are used up: MaxAttempts were made, or the last one
\* failed with an error that is not transient
C18_TopTierUsedUp(upto) ==
    LET made == SelectSeq(SubSeq(log, 1, upto),
                          LAMBDA e : e.model = "gpt-4o" /\ e.api = "create")
    IN  /\ made # <<>>
        /\ Len(made) = MaxAttempts \/ ~IsTransient(made[Len(made)].res)

\* C18: a model other than the configured one is invoked only when the configured model
\* is gpt-4o; it is gpt-4o-mini; every invocation of gpt-4o before it failed and the
\* attempts on gpt-4o are used up; gpt-4o is not invoked after it
C18_FallbackOnlyAfterTopTier ==
    \A j \in 1..Len(log) :
        log[j].model # chatModel
            => /\ chatModel = "gpt-4o" /\ log[j].model = "gpt-4o-mini"
               /\ \A i \in 1..(j - 1) : log[i].model = "gpt-4o" => log[i].res # "ok"
               /\ C18_TopTierUsedUp(j - 1)
               /\ \A i \in (j + 1)..Len(log) : log[i].model = "gpt-4o-mini"

\* an advanced-mode request whose three attempts on gpt-4o hit the rate limit and whose
\* answer comes from gpt-4o-mini
C18_Witness ==
    /\ ChatEnded /\ req.level = "advanced" /\ chatModel = "gpt-4o" /\ ~ret.exc
    /\ Len(log) = MaxAttempts + 1
    /\ \A i \in 1..MaxAttempts : log[i].model = "gpt-4o" /\ log[i].res = ErrRateLimit
    /\ log[Len(log)].model = "gpt-4o-mini" /\ log[Len(log)].res = "ok"
\* C19: the generation call of a request in a mode is sent with the model the task
\* router names for the mode (its first invocation, before any fallback) and with the
\* temperature of the mode: 0.1 textbook, 0.3 detailed, 0.7 advanced
C19_ModeModelAndTemperature ==
    (req.entry \in {"get_chat_response", "generate_answer", "generate_textbook_answer"}
        /\ req.level \in ValidLevels /\ log # <<>>)
        => /\ log[1].model = TaskRouterModel(req.level)
           /\ \A i \in 1..Len(log) : log[i].temperature = ModeTemperature(req.level)
\* a request in a mode has ended after similarity_search raised
C20_EndedAfterRetrievalRaised ==
    /\ pc = "done" /\ trace.raised
    /\ req.entry \in {"generate_answer", "get_chat_response"}
    /\ req.level \in ValidLevels

\* the answer text of the response of generate_answer or get_chat_response
C20_Text == IF req.entry = "generate_answer" THEN ret.val ELSE ret.val.answer

C21_HedgedOutsideTextbook ==
    /\ pc = "done" /\ req.level \in {"detailed", "advanced"}
    /\ req.entry \in {"generate_answer", "get_chat_response"}
    /\ trace.chat = "ok" /\ C2_ContainsPhrase(trace.generated)

\* C21: in detailed and advanced modes a generated text that holds a hedging phrase is
\* the answer as it is: generate_answer returns it, and get_chat_response returns it
\* with success = true
C21_NoValidationOutsideTextbook ==
    C21_HedgedOutsideTextbook
        => /\ ~ret.exc
           /\ IF req.entry = "generate_answer"
              THEN ret.val = trace.generated
              ELSE ret.val.answer = trace.generated /\ ret.val.success = TRUE

\* get_chat_response in detailed mode has returned a text with a hedging phrase
C21_Witness ==
    /\ C21_HedgedOutsideTextbook
    /\ req.entry = "get_chat_response" /\ req.level = "detailed"
    /\ trace.generated = "There is Insufficient Information in the textbook context."
    /\ ret.val.answer = trace.generated /\ ret.val.success = TRUE
\* generate_suggested_questions, called on a source text of at least 30 characters, has
\* returned after a reply of the secondary generation call
C22_Suggested ==
    /\ pc = "done" /\ req.entry = "generate_suggested_questions" /\ ~ret.exc
    /\ Len(req.message) >= MinContextLen /\ trace.invoke = 1 /\ trace.raw # None

\* the strings a sequence holds
C22_Entries(seq) == {seq[i] : i \in 1..Len(seq)}

\* C22: when k of the parsed questions survive, 1 <= k < 3, the result starts with
\* these k questions in their order, and its other 3 - k entries are heuristic ones
C22_PaddedNotReplaced ==
    C22_Suggested
        => LET parsed == ParsedQuestions(trace.raw)
               k == Len(parsed)
           IN  (1 <= k /\ k < NumQuestions)
                  => /\ Len(ret.val) = NumQuestions
                     /\ \A i \in 1..k : ret.val[i] = parsed[i]
                     /\ \A i \in (k + 1)..NumQuestions :
                           ret.val[i] \in C22_Entries(Heuristic(req.message))

\* C23: when fewer than 3 parsed questions survive and the source text has no keyword,
\* the entries the parsed questions do not fill are entries of the fallback triple
C23_FallbackTriple ==
    C22_Suggested
        => LET k == Len(ParsedQuestions(trace.raw))
           IN  (k < NumQuestions /\ Keywords(req.message) = <<>>)
                  => /\ Len(ret.val) = NumQuestions
                     /\ \A i \in (k + 1)..NumQuestions :
                           ret.val[i] \in C22_Entries(GetFallbackQuestions)
\* C24: with get and set called by concurrent request threads, no call raises and the
\* cache never holds more than capacity entries
C24_NoRaiseAndBounded ==
    /\ \A t \in ThreadIds : ~threads[t].raised
    /\ Len(cache) <= capacity
\* the translation of a text all of whose chunks were translated
C25_FullTranslation(parts) ==
    Strip(Join([i \in 1..Len(parts) |-> Translate(parts[i])], "\n\n"))

\* C25: translation_cache holds only translations computed without a provider failure,
\* and no request is answered from the cache with a failed or empty translation
C25_OnlySuccessCached ==
    /\ \A i \in 1..Len(cache) : cache[i][2].text = C25_FullTranslation(cache[i][1][2])
    /\ (tr.response.cached /\ tr.response.status = 200)
          => /\ tr.response.translatedText # ""
             /\ tr.response.translatedText = C25_FullTranslation(tr.response.parts)

\* the results of the chunks in their order: the translation, or "" for a failed chunk
C26_InChunkOrder(parts, failed) ==
    [i \in 1..Len(parts) |-> IF i \in failed THEN "" ELSE Translate(parts[i])]

\* C26: at most 4 chunk translations are in flight at a time, and the text of a computed
\* response joins the results of the chunks in the order of the chunks, whatever the
\* order in which the workers ended
C26_BoundedAndOrdered ==
    /\ Cardinality(Running) <= 4
    /\ (tr.response.status = 200 /\ ~tr.response.cached)
          => /\ tr.response.chunks = Len(tr.response.parts)
             /\ tr.response.translatedText =
                   Strip(Join(C26_InChunkOrder(tr.response.parts, tr.response.failed),
                              "\n\n"))

\* four of five chunks are being translated: chunk 2 ended first, before chunk 1, and
\* chunk 5 started after it
C26_Witness ==
    /\ tr.call.pc = "fanout"
    /\ tr.call.status = <<"running", "ok", "running", "running", "running">>

\* C27: a chunk whose translation fails contributes the empty string and the batch
\* does not fail: the response is a success with the translations of the other chunks,
\* also when every chunk failed, and no response has status 502
C27_ChunkFailureNotFatal ==
    /\ tr.response.status # 502
    /\ (tr.call.pc = "idle" /\ tr.response.failed # {})
          => /\ tr.response.status = 200 /\ tr.response.success
             /\ \A i \in 1..Len(tr.response.parts) :
                   i \notin tr.response.failed
                      => Contains(tr.response.translatedText, Translate(tr.response.parts[i]))
             /\ (tr.response.failed = 1..Len(tr.response.parts))
                   => tr.response.translatedText = ""

\* a response after every one of five chunks failed
C27_Witness ==
    /\ tr.call.pc = "idle" /\ tr.response.status = 200 /\ tr.response.success
    /\ tr.response.chunks = 5 /\ tr.response.failed = 1..5
    /\ tr.response.translatedText = ""
\* what an allow() call does to the window and the count
C30_AllowStep ==
    AllowCall
        => LET elapsed == now - limiter.window_start
           IN  /\ (limiter'.window_start # limiter.window_start \/ limiter'.count < limiter.count)
                     => /\ elapsed >= 60
                        /\ limiter'.window_start = now
               /\ (limiter.count >= 30 /\ elapsed < 60)
                     => rate'.result = "False" /\ limiter'.count = limiter.count
               /\ rate'.result = "True" => limiter'.count <= 30

\* C30: between two resets of the window allow() returns True at most 30 times; the
\* window is reset only by a call made 60 seconds or more after its start; with the
\* limit reached, a call before the next reset returns False and leaves the count as
\* it is
C30_RateLimited ==
    /\ [](rate.granted <= 30 /\ limiter.count <= 30)
    /\ [][C30_AllowStep]_vars

\* the limit is reached in a window that followed another, and a call was refused
C30_Witness ==
    /\ rate.result = "False" /\ rate.granted = 30 /\ limiter.count = 30
    /\ limiter.window_start > WindowSeconds
\* C29: a summary of a test reports the correctCount and the overallPercent that the last
\* submit_test of the test returned as correct and overallPercent, with
\* 0 <= correctCount <= total; the summary of a test never submitted reports correctCount 0
C29_SummaryAgreesWithSubmit ==
    (response.view = "summary" /\ response.status = 200)
        => /\ response.correctCount >= 0 /\ response.correctCount <= response.total
           /\ IF response.id \in DOMAIN returned
              THEN /\ response.correctCount = returned[response.id].correct
                   /\ response.overallPercent = returned[response.id].overallPercent
              ELSE response.correctCount = 0

\* the summary of a submitted test in which an answer was right
C29_Witness ==
    /\ response.view = "summary" /\ response.status = 200
    /\ response.id \in DOMAIN returned
    /\ response.correctCount = 1 /\ response.overallPercent = 50

\* the summary of a test that was never submitted but has an answer saved
C29_WitnessBeforeSubmit ==
    /\ response.view = "summary" /\ response.status = 200
    /\ response.id \notin DOMAIN returned
    /\ sessions[response.id].answers # <<>>
\* yourAnswer of the row that the answer stored for qid grades to
StoredAnswer(session, qid) == FreshRow(session, qid, 0).yourAnswer

\* no answer is written to a submitted session
C28_NoWriteAfterSubmit ==
    [][\A id \in DOMAIN sessions :
          sessions[id].submitted => sessions'[id].answers = sessions[id].answers]_vars

\* when a session is marked submitted, each graded row shows the stored answer
C28_RowsShowStoredAnswers ==
    [][\A id \in DOMAIN sessions :
          (~sessions[id].submitted /\ sessions'[id].submitted)
             => \A i \in 1..Len(sessions'[id].questionIds) :
                   LET qid == sessions'[id].questionIds[i]
                   IN  /\ qid \in DOMAIN sessions'[id].graded
                       /\ sessions'[id].graded[qid].yourAnswer
                             = StoredAnswer(sessions'[id], qid)]_vars

\* C28: with save_answer and submit_test running in concurrent threads on one session,
\* no answer is written to the session once it is marked submitted, and when it is marked
\* submitted each graded row's yourAnswer is the answer the session stores for its question
C28_SubmitIsAtomic == C28_NoWriteAfterSubmit /\ C28_RowsShowStoredAnswers
====
